---------------------------- MODULE Spec2Model ----------------------------
(***************************************************************************)
(* Internship Tracker: the temporal interval aggregation engine of the     *)
(* page component (month bucketing, overlap test, level / year / period    *)
(* filter pipeline, effects that keep the selections inside the data) and  *)
(* the spreadsheet import adapter that feeds it.                           *)
(*                                                                         *)
(* Representation.  A JavaScript string is a sequence of character codes   *)
(* (ASCII), so that trim, case mapping, substring search, split, parseInt, *)
(* padStart and the lexicographic order of month keys are computed as the  *)
(* code computes them.  A Date is an integer number of clock ticks since   *)
(* 1970-01-01T00:00Z; a day has TicksPerDay ticks (the source's tick is    *)
(* one millisecond; the resolution is coarsened, "one unit before the      *)
(* next month" stays one tick).                                            *)
(***************************************************************************)
EXTENDS Integers, Sequences, FiniteSets, TLC

\* ------------------------------------------------------------------ bounds
TicksPerDay == 2      \* clock resolution: ticks per day
MaxRows == 2          \* rows in an uploaded sheet
MaxOps == 2           \* handler calls counted since the last upload (saturating)

\* ------------------------------------------------------- null / sentinels
null == <<-1>>        \* null of a string-typed value (no character has code -1)
NoYear == 0           \* selectedYear: number | null  (null; falsy like 0)
NoDate == -1          \* Date | null                   (null)
NaN == -1             \* Number.parseInt on a string without leading digits

IsNaN(x) == x = NaN

\* ---------------------------------------------------------------- strings
ChSpace == 32
ChDash == 45
ChZero == 48

Truthy(s) == s # null /\ s # <<>>             \* JS truthiness of string | null

IsDigit(c) == c >= 48 /\ c <= 57

ToUpperCh(c) == IF c >= 97 /\ c <= 122 THEN c - 32 ELSE c
ToLowerCh(c) == IF c >= 65 /\ c <= 90 THEN c + 32 ELSE c
toUpperCase(s) == [i \in 1..Len(s) |-> ToUpperCh(s[i])]
toLowerCase(s) == [i \in 1..Len(s) |-> ToLowerCh(s[i])]

RECURSIVE TrimStart(_)
TrimStart(s) == IF s # <<>> /\ Head(s) = ChSpace THEN TrimStart(Tail(s)) ELSE s
RECURSIVE TrimEnd(_)
TrimEnd(s) ==
    IF s # <<>> /\ s[Len(s)] = ChSpace THEN TrimEnd(SubSeq(s, 1, Len(s) - 1)) ELSE s
trim(s) == TrimEnd(TrimStart(s))

\* String.prototype.includes / startsWith
startsWith(s, p) == Len(p) <= Len(s) /\ SubSeq(s, 1, Len(p)) = p
includes(s, sub) ==
    \E i \in 1..(Len(s) - Len(sub) + 1) : SubSeq(s, i, i + Len(sub) - 1) = sub

\* a < b on strings: lexicographic by character code
RECURSIVE StrLess(_, _)
StrLess(a, b) ==
    IF b = <<>> THEN FALSE
    ELSE IF a = <<>> THEN TRUE
    ELSE IF Head(a) # Head(b) THEN Head(a) < Head(b)
    ELSE StrLess(Tail(a), Tail(b))

\* String(n) for an integer n >= 0
RECURSIVE ToStr(_)
ToStr(n) == IF n < 10 THEN <<ChZero + n>> ELSE ToStr(n \div 10) \o <<ChZero + (n % 10)>>

\* s.padStart(width, ch)
RECURSIVE padStart(_, _, _)
padStart(s, width, ch) == IF Len(s) >= width THEN s ELSE padStart(<<ch>> \o s, width, ch)

\* s.split(sep) for a one-character separator: the pieces between the separators
split(s, sep) ==
    LET at == {i \in 1..Len(s) : s[i] = sep}
        \* the k-th separator position; position 0 and Len(s)+1 close the ends
        cut(k) == IF k = 0 THEN 0
                  ELSE IF k > Cardinality(at) THEN Len(s) + 1
                  ELSE CHOOSE i \in at : Cardinality({j \in at : j < i}) = k - 1
    IN  [k \in 1..(Cardinality(at) + 1) |-> SubSeq(s, cut(k - 1) + 1, cut(k) - 1)]

\* Number.parseInt(s, 10) on text without sign or blanks: the leading digits, else NaN
RECURSIVE ParseDigits(_, _, _)
ParseDigits(s, i, acc) ==
    IF i <= Len(s) /\ IsDigit(s[i]) THEN ParseDigits(s, i + 1, acc * 10 + (s[i] - ChZero))
    ELSE acc
parseInt(s) == IF s # <<>> /\ IsDigit(s[1]) THEN ParseDigits(s, 2, s[1] - ChZero) ELSE NaN

\* ------------------------------------------------------------------ dates
IsLeap(y) == (y % 4 = 0 /\ y % 100 # 0) \/ y % 400 = 0

DaysBeforeYear(y) ==
    365 * (y - 1970) + ((y - 1969) \div 4) - ((y - 1901) \div 100) + ((y - 1601) \div 400)

\* days of a common year before month index m (0..11), and before "month 12"
CumulativeDays == <<0, 31, 59, 90, 120, 151, 181, 212, 243, 273, 304, 334, 365>>

DaysBeforeMonth(y, m) == CumulativeDays[m + 1] + (IF m > 1 /\ IsLeap(y) THEN 1 ELSE 0)

\* new Date(Date.UTC(year, monthIndex, day)).getTime(): month and day overflow carry
DateUTC(year, monthIndex, day) ==
    LET y == year + (monthIndex \div 12)
        m == monthIndex % 12
    IN  (DaysBeforeYear(y) + DaysBeforeMonth(y, m) + (day - 1)) * TicksPerDay

getUTCFullYear(t) ==
    LET d == t \div TicksPerDay
        c == 1970 + (d \div 365)
    IN  IF DaysBeforeYear(c) <= d THEN c ELSE c - 1

getUTCMonth(t) ==
    LET y == getUTCFullYear(t)
        dayOfYear == (t \div TicksPerDay) - DaysBeforeYear(y)
    IN  CHOOSE m \in 0..11 :
            DaysBeforeMonth(y, m) <= dayOfYear /\ dayOfYear < DaysBeforeMonth(y, m + 1)

getUTCDate(t) ==
    LET y == getUTCFullYear(t)
        m == getUTCMonth(t)
    IN  ((t \div TicksPerDay) - DaysBeforeYear(y) - DaysBeforeMonth(y, m)) + 1


\* ---------------------------------------------------- keyword vocabulary
StrSMK == <<83, 77, 75>>   \* "SMK"
StrUniversitas == <<85, 110, 105, 118, 101, 114, 115, 105, 116, 97, 115>>   \* "Universitas"
StrTidakDiketahui == <<84, 105, 100, 97, 107, 32, 100, 105, 107, 101, 116, 97, 104, 117, 105>>   \* "Tidak diketahui"

SMK_KEYWORDS ==
    <<
       <<115, 109, 107>>,   \* "smk"
       <<115, 116, 109>>,   \* "stm"
       <<115, 109, 107, 110>>,   \* "smkn"
       <<115, 109, 107, 115>>,   \* "smks"
       <<115, 101, 107, 111, 108, 97, 104, 32, 109, 101, 110, 101, 110, 103, 97, 104, 32, 107, 101, 106, 117, 114, 117, 97, 110>>,   \* "sekolah menengah kejuruan"
       <<118, 111, 99, 97, 116, 105, 111, 110, 97, 108>>    \* "vocational"
    >>

UNIVERSITY_KEYWORDS ==
    <<
       <<117, 110, 105, 118, 101, 114, 115, 105, 116, 97, 115>>,   \* "universitas"
       <<107, 97, 109, 112, 117, 115>>,   \* "kampus"
       <<107, 117, 108, 105, 97, 104>>,   \* "kuliah"
       <<112, 101, 114, 103, 117, 114, 117, 97, 110, 32, 116, 105, 110, 103, 103, 105>>,   \* "perguruan tinggi"
       <<112, 111, 108, 105, 116, 101, 107, 110, 105, 107>>,   \* "politeknik"
       <<97, 107, 97, 100, 101, 109, 105>>,   \* "akademi"
       <<105, 110, 115, 116, 105, 116, 117, 116>>,   \* "institut"
       <<115, 99, 104, 111, 111, 108, 32, 111, 102>>,   \* "school of"
       <<99, 111, 108, 108, 101, 103, 101>>,   \* "college"
       <<100, 49>>,   \* "d1"
       <<100, 50>>,   \* "d2"
       <<100, 51>>,   \* "d3"
       <<100, 52>>,   \* "d4"
       <<115, 49>>,   \* "s1"
       <<115, 50>>,   \* "s2"
       <<115, 51>>,   \* "s3"
       <<115, 97, 114, 106, 97, 110, 97>>,   \* "sarjana"
       <<109, 97, 103, 105, 115, 116, 101, 114>>,   \* "magister"
       <<98, 97, 99, 104, 101, 108, 111, 114>>,   \* "bachelor"
       <<109, 97, 115, 116, 101, 114>>,   \* "master"
       <<109, 97, 104, 97, 115, 105, 115, 119, 97>>    \* "mahasiswa"
    >>


\* ------------------------------------------------- level classification
LEVEL_ORDER == <<StrSMK, StrUniversitas>>

normalizeLevelValue(value) ==
    IF ~Truthy(value) THEN <<>> ELSE toUpperCase(trim(value))

categorizeByKeywords(value) ==
    IF ~Truthy(value) THEN <<>>
    ELSE LET normalized == toLowerCase(trim(value))
         IN  IF \E k \in 1..Len(SMK_KEYWORDS) : includes(normalized, SMK_KEYWORDS[k])
             THEN StrSMK
             ELSE IF \E k \in 1..Len(UNIVERSITY_KEYWORDS) :
                         includes(normalized, UNIVERSITY_KEYWORDS[k])
             THEN StrUniversitas
             ELSE <<>>

categorizeJenjang(value) ==
    IF ~Truthy(value) THEN <<>>
    ELSE LET keywordMatch == categorizeByKeywords(value)
         IN  IF Truthy(keywordMatch) THEN keywordMatch ELSE trim(value)

determineLevel(record) ==
    LET fromJenjang == categorizeJenjang(record.jenjang)
    IN  IF Truthy(fromJenjang) THEN fromJenjang ELSE categorizeByKeywords(record.instansi)

\* ------------------------------------------------------- month bucketing
parseDateOnly(value) ==
    IF ~Truthy(value) THEN NoDate
    ELSE LET texts == split(value, ChDash)
             parts == [i \in 1..Len(texts) |-> parseInt(texts[i])]
         IN  IF Len(parts) # 3 \/ (\E i \in 1..Len(parts) : IsNaN(parts[i])) THEN NoDate
             ELSE DateUTC(parts[1], parts[2] - 1, parts[3])

formatYearMonthUTC(date) ==
    ToStr(getUTCFullYear(date)) \o <<ChDash>> \o padStart(ToStr(getUTCMonth(date) + 1), 2, ChZero)

\* (variant for C15: the month ends at the first instant of the next month)
getMonthBoundsOverlapping(monthKey) ==
    LET parts == split(monthKey, ChDash)
        year == parseInt(parts[1])
        month == parseInt(parts[2])
    IN  [start |-> DateUTC(year, month - 1, 1), end |-> DateUTC(year, month, 1)]

getMonthBounds(monthKey) ==
    LET parts == split(monthKey, ChDash)
        year == parseInt(parts[1])
        month == parseInt(parts[2])
        start == DateUTC(year, month - 1, 1)
        nextMonthStart == DateUTC(year, month, 1)
    IN  [start |-> start, end |-> nextMonthStart - 1]

RECURSIVE MonthLoop(_, _)
MonthLoop(current, lastMonth) ==
    IF current <= lastMonth
    THEN <<formatYearMonthUTC(current)>>
         \o MonthLoop(DateUTC(getUTCFullYear(current), getUTCMonth(current) + 1, 1), lastMonth)
    ELSE <<>>

\* (variant for C13: the loop starts at start itself, not at the first of its month)
generateMonthKeysInRangeUnaligned(start, end) ==
    IF start = NoDate \/ end = NoDate THEN <<>>
    ELSE MonthLoop(start, DateUTC(getUTCFullYear(end), getUTCMonth(end), 1))

generateMonthKeysInRange(start, end) ==
    IF start = NoDate \/ end = NoDate THEN <<>>
    ELSE MonthLoop(DateUTC(getUTCFullYear(start), getUTCMonth(start), 1),
                   DateUTC(getUTCFullYear(end), getUTCMonth(end), 1))

\* variant of isActiveInMonth: the month boundaries are exclusive
isActiveInMonthExclusive(record, monthStart, monthEnd) ==
    IF record.startDate = NoDate THEN FALSE
    ELSE LET effectiveEnd == IF record.endDate # NoDate THEN record.endDate ELSE monthEnd
         IN  record.startDate < monthEnd /\ effectiveEnd > monthStart

isActiveInMonth(record, monthStart, monthEnd) ==
    IF record.startDate = NoDate THEN FALSE
    ELSE LET effectiveEnd == IF record.endDate # NoDate THEN record.endDate ELSE monthEnd
         IN  record.startDate <= monthEnd /\ effectiveEnd >= monthStart

createMonthKey(year, month) == ToStr(year) \o <<ChDash>> \o padStart(ToStr(month), 2, ChZero)

compareMonthKeys(a, b) == IF a = b THEN 0 ELSE IF StrLess(a, b) THEN -1 ELSE 1

getYearRange(year) ==
    LET start == DateUTC(year, 0, 1)
        nextYearStart == DateUTC(year + 1, 0, 1)
    IN  [start |-> start, end |-> nextYearStart - 1]

recordMatchesYear(record, year) ==
    IF record.startDate = NoDate THEN FALSE
    ELSE LET range == getYearRange(year)
             effectiveEnd == IF record.endDate # NoDate THEN record.endDate ELSE range.end
         IN  record.startDate <= range.end /\ effectiveEnd >= range.start

\* (variant for C16: an open-ended record is taken to end on its start date)
recordOverlapsRangeClosingOpen(record, start, end) ==
    IF record.startDate = NoDate THEN FALSE
    ELSE LET effectiveEnd == IF record.endDate # NoDate THEN record.endDate
                             ELSE record.startDate
         IN  record.startDate <= end /\ effectiveEnd >= start

recordOverlapsRange(record, start, end) ==
    IF record.startDate = NoDate THEN FALSE
    ELSE LET effectiveEnd == IF record.endDate # NoDate THEN record.endDate ELSE end
         IN  record.startDate <= end /\ effectiveEnd >= start

\* Array.prototype.includes on sequences (filter is SelectSeq)
Includes(seq, x) == \E i \in 1..Len(seq) : seq[i] = x
\* ------------------------------------------------------ uploaded sheets
\* The cells of the rows a sheet may hold (instansi, jenjang, start, end as typed).
SheetRows ==
    <<
      \* 1: "SMKN 1" | "SMK" | "2024-01-01" | "2024-03-31"   (the end-to-end scenario's closed SMK record)
      [Instansi |-> <<83, 77, 75, 78, 32, 49>>, Jenjang |-> <<83, 77, 75>>,
       Mulai |-> <<50, 48, 50, 52, 45, 48, 49, 45, 48, 49>>,
       Selesai |-> <<50, 48, 50, 52, 45, 48, 51, 45, 51, 49>>],
      \* 2: "Univ A" | "Universitas" | "2024-02-15" | ""   (the end-to-end scenario's open record)
      [Instansi |-> <<85, 110, 105, 118, 32, 65>>, Jenjang |-> <<85, 110, 105, 118, 101, 114, 115, 105, 116, 97, 115>>,
       Mulai |-> <<50, 48, 50, 52, 45, 48, 50, 45, 49, 53>>,
       Selesai |-> <<>>],
      \* 3: "Univ A" | "S1" | "2023-12-31" | "2024-01-01"   (classified by keyword; last day of a year to the first of the next)
      [Instansi |-> <<85, 110, 105, 118, 32, 65>>, Jenjang |-> <<83, 49>>,
       Mulai |-> <<50, 48, 50, 51, 45, 49, 50, 45, 51, 49>>,
       Selesai |-> <<50, 48, 50, 52, 45, 48, 49, 45, 48, 49>>],
      \* 4: " SMKN 1 " | " smk negeri 1 " | "2024-03-15" | "2024-03-15"   (row 1's institution with surrounding blanks; another spelling of SMK; a single day)
      [Instansi |-> <<32, 83, 77, 75, 78, 32, 49, 32>>, Jenjang |-> <<32, 115, 109, 107, 32, 110, 101, 103, 101, 114, 105, 32, 49, 32>>,
       Mulai |-> <<50, 48, 50, 52, 45, 48, 51, 45, 49, 53>>,
       Selesai |-> <<50, 48, 50, 52, 45, 48, 51, 45, 49, 53>>],
      \* 5: "PT X" | "" | "2024-04-30" | "2024-05-01"   (unclassified; last day of a month to the first of the next)
      [Instansi |-> <<80, 84, 32, 88>>, Jenjang |-> <<>>,
       Mulai |-> <<50, 48, 50, 52, 45, 48, 52, 45, 51, 48>>,
       Selesai |-> <<50, 48, 50, 52, 45, 48, 53, 45, 48, 49>>],
      \* 6: "" | "SMK" | "2024-05-10" | "2024-02-01"   (end before start; blank institution)
      [Instansi |-> <<>>, Jenjang |-> <<83, 77, 75>>,
       Mulai |-> <<50, 48, 50, 52, 45, 48, 53, 45, 49, 48>>,
       Selesai |-> <<50, 48, 50, 52, 45, 48, 50, 45, 48, 49>>],
      \* 7: "PT X" | "SMK" | "" | ""   (no start date: dropped by the adapter)
      [Instansi |-> <<80, 84, 32, 88>>, Jenjang |-> <<83, 77, 75>>,
       Mulai |-> <<>>,
       Selesai |-> <<>>]
    >>

\* -------------------------------------------------------- import adapter
normaliseString(value) == trim(value)

\* /^\d{4}-\d{2}-\d{2}$/.test(s)
IsIsoDateShape(s) ==
    /\ Len(s) = 10
    /\ \A i \in {1, 2, 3, 4, 6, 7, 9, 10} : IsDigit(s[i])
    /\ s[5] = ChDash /\ s[8] = ChDash

\* parseDate on a text cell: a YYYY-MM-DD text is returned unchanged; the sheets
\* of SheetRows hold no other text that the general Date parser accepts
parseDate(dateValue) ==
    IF ~Truthy(dateValue) THEN null
    ELSE IF IsIsoDateShape(dateValue) THEN dateValue
    ELSE null

\* the record parseExcelFile builds from one row, with its errors flag
RowRecord(row) ==
    LET startParsed == parseDate(row.Mulai)
        endParsed == parseDate(row.Selesai)
        startError == ~Truthy(row.Mulai) \/ startParsed = null
        endError == Truthy(row.Selesai) /\ endParsed = null
    IN  [instansi |-> normaliseString(row.Instansi),
         jenjang |-> normaliseString(row.Jenjang),
         tanggalMulai |-> IF startParsed = null THEN <<>> ELSE startParsed,
         tanggalSelesai |-> IF endParsed = null THEN <<>> ELSE endParsed,
         errors |-> startError \/ endError]

\* parseExcelFile: the rows without errors; the promise rejects when none is left
parseExcelFile(file) ==
    LET all == [i \in 1..Len(file) |-> RowRecord(SheetRows[file[i]])]
        validRecords == SelectSeq(all, LAMBDA r : ~r.errors)
    IN  [rejected |-> validRecords = <<>>, records |-> validRecords]

\* handleFileUpload's enrichment of one parsed record
Enrich(record) ==
    LET computedLevel == determineLevel(record)
        fromJenjang == normalizeLevelValue(record.jenjang)
        normalizedLevel ==
            IF Truthy(fromJenjang) THEN fromJenjang ELSE normalizeLevelValue(computedLevel)
    IN  [instansi |-> record.instansi,
         jenjang |-> record.jenjang,
         computedLevel |-> computedLevel,
         normalizedLevel |-> normalizedLevel,
         startDate |-> parseDateOnly(record.tanggalMulai),
         endDate |-> parseDateOnly(record.tanggalSelesai)]


\* ------------------------------------------- data-processor aggregation
\* The host's timezone is an offset in ticks: local time = UTC + offset.
\* Date's local getters and the local constructor new Date(y, m, d):
getFullYear(date, offset) == getUTCFullYear(date + offset)
getMonth(date, offset) == getUTCMonth(date + offset)
LocalDate(year, monthIndex, day, offset) == DateUTC(year, monthIndex, day) - offset

formatDate(date) ==
    ToStr(getUTCFullYear(date)) \o <<ChDash>> \o padStart(ToStr(getUTCMonth(date) + 1), 2, ChZero)
        \o <<ChDash>> \o padStart(ToStr(getUTCDate(date)), 2, ChZero)

formatYearMonth(date) ==
    ToStr(getUTCFullYear(date)) \o <<ChDash>> \o padStart(ToStr(getUTCMonth(date) + 1), 2, ChZero)

\* new Date(text) on a YYYY-MM-DD text: UTC midnight of that day (day numbers
\* past the month's end roll over, as in Date.UTC); NaN on the empty text
NewDate(text) ==
    IF IsIsoDateShape(text)
    THEN LET parts == split(text, ChDash)
         IN  DateUTC(parseInt(parts[1]), parseInt(parts[2]) - 1, parseInt(parts[3]))
    ELSE NaN

RECURSIVE MonthListLoop(_, _, _)
MonthListLoop(current, end, offset) ==
    IF current <= end
    THEN <<formatYearMonth(current)>>
         \o MonthListLoop(LocalDate(getFullYear(current, offset), getMonth(current, offset) + 1,
                                    1, offset),
                          end, offset)
    ELSE <<>>

generateMonthList(startDate, endDate, offset) ==
    LET start == NewDate(startDate)
        end == NewDate(endDate)
    IN  MonthListLoop(LocalDate(getFullYear(start, offset), getMonth(start, offset), 1, offset),
                      end, offset)

\* calculateActiveInterns: the forEach callback on one record, given what the
\* records before it left in acc (month keys counted so far, overallStart,
\* overallEnd)
CalculateStep(acc, record, now, offset) ==
    LET startDate == NewDate(record.tanggalMulai)
        hasEndDate == trim(record.tanggalSelesai) # <<>>
        rawEndDate == IF hasEndDate THEN NewDate(record.tanggalSelesai) ELSE now
        ordered == rawEndDate >= startDate
        rangeStart == IF ordered THEN startDate ELSE rawEndDate
        rangeEnd == IF ordered THEN rawEndDate ELSE startDate
    IN  IF IsNaN(startDate) \/ IsNaN(rawEndDate) THEN acc
        ELSE [counted |-> acc.counted
                          \o generateMonthList(formatDate(rangeStart), formatDate(rangeEnd), offset),
              overallStart |->
                  IF acc.overallStart = NoDate \/ rangeStart < acc.overallStart
                  THEN LocalDate(getFullYear(rangeStart, offset), getMonth(rangeStart, offset),
                                 1, offset)
                  ELSE acc.overallStart,
              overallEnd |->
                  IF acc.overallEnd = NoDate \/ rangeEnd > acc.overallEnd
                  THEN LocalDate(getFullYear(rangeEnd, offset), getMonth(rangeEnd, offset),
                                 1, offset)
                  ELSE acc.overallEnd]

RECURSIVE CalculateFold(_, _, _, _)
CalculateFold(acc, recs, now, offset) ==
    IF recs = <<>> THEN acc
    ELSE CalculateFold(CalculateStep(acc, Head(recs), now, offset), Tail(recs), now, offset)

calculateActiveInterns(recs, now, offset) ==
    IF Len(recs) = 0 THEN <<>>
    ELSE LET acc == CalculateFold([counted |-> <<>>, overallStart |-> NoDate,
                                   overallEnd |-> NoDate],
                                  recs, now, offset)
         IN  IF acc.overallStart = NoDate \/ acc.overallEnd = NoDate THEN <<>>
             ELSE LET months == generateMonthList(formatDate(acc.overallStart),
                                                  formatDate(acc.overallEnd), offset)
                  IN  [i \in 1..Len(months) |->
                          [month |-> months[i],
                           activeCount |-> Len(SelectSeq(acc.counted,
                                                         LAMBDA key : key = months[i]))]]

\* ----------------------------------------------------------------- state
VARIABLES
    records,              \* useState: RecordWithLevel[]
    selectedYear,         \* useState: number | null
    selectedLevel,        \* useState: string | null
    selectedStartPeriod,  \* useState: string | null
    selectedEndPeriod,    \* useState: string | null
    selectedMonth,        \* useState: string | null
    error,                \* useState: string
    loading,              \* useState: boolean
    rangeExtents,         \* useMemo (reads the clock when recomputed)
    availableYears,       \* useMemo (reads the clock when recomputed)
    availablePeriodKeys,  \* useMemo
    customRange,          \* useMemo
    monthKeys,            \* useMemo
    monthlyData,          \* useMemo
    pendingEffects,       \* effects whose dependencies changed in the last render
    inflight,             \* uploads whose parseExcelFile promise is not settled yet
    clock,                \* index of the wall clock's current instant
    lastOp,               \* the last handler that completed
    opCount,              \* handler calls since the last upload, up to MaxOps
    repeated,             \* the last handler call selected again what the call before it selected
    latest,               \* the upload started last since mounting or the last Reset, and its outcome
    probe                 \* a unit of the engine applied on its own: arguments and result

hooks == <<records, selectedYear, selectedLevel, selectedStartPeriod, selectedEndPeriod,
           selectedMonth, error, loading>>
memos == <<rangeExtents, availableYears, availablePeriodKeys, customRange, monthKeys,
           monthlyData>>
vars == <<hooks, memos, pendingEffects, inflight, clock, lastOp, opCount, repeated, latest, probe>>

\* no unit is being exercised (always so while the page runs)
NoProbe == [unit |-> "none"]

\* no upload has been started since mounting or the last Reset
NoUpload == [file |-> <<>>, outcome |-> "none"]

\* the instants new Date() can return, in order
ClockInstants == <<DateUTC(2024, 3, 1), DateUTC(2024, 3, 5) + 1>>
Now == ClockInstants[clock]

NoRange == [start |-> NoDate, end |-> NoDate]                 \* a null range
NoCustomRange == [start |-> NoDate, end |-> NoDate, startKey |-> null, endKey |-> null]

SeqRange(s) == {s[i] : i \in 1..Len(s)}
SetMin(S) == CHOOSE x \in S : \A y \in S : x <= y
SetMax(S) == CHOOSE x \in S : \A y \in S : x >= y

RECURSIVE SortAscending(_)
SortAscending(S) == IF S = {} THEN <<>> ELSE <<SetMin(S)>> \o SortAscending(S \ {SetMin(S)})

\* ------------------------------------------------------ memoised values
\* Each is the body of one useMemo, as a function of its dependencies.
LevelFiltered(recs, level) ==
    IF ~Truthy(level) THEN recs
    ELSE LET normalizedSelection == normalizeLevelValue(level)
         IN  SelectSeq(recs, LAMBDA record : record.normalizedLevel = normalizedSelection)

levelFilteredRecords == LevelFiltered(records, selectedLevel)

\* the Map of levelOptions: the first display label of every normalizedLevel, in
\* insertion order
RECURSIVE LevelLabelsFrom(_, _)
LevelLabelsFrom(recs, seenKeys) ==
    IF recs = <<>> THEN <<>>
    ELSE LET record == Head(recs)
             display == IF Truthy(record.computedLevel) THEN record.computedLevel
                        ELSE record.normalizedLevel
         IN  IF ~Truthy(record.normalizedLevel) \/ record.normalizedLevel \in seenKeys
             THEN LevelLabelsFrom(Tail(recs), seenKeys)
             ELSE <<display>>
                  \o LevelLabelsFrom(Tail(recs), seenKeys \cup {record.normalizedLevel})

levelLabels == LevelLabelsFrom(records, {})

\* sortLevels.  indexOf in LEVEL_ORDER (-1 when absent); a.localeCompare(b) is
\* taken as the order of the character codes.  Array.prototype.sort is stable.
LevelIndex(label) ==
    IF \E i \in 1..Len(LEVEL_ORDER) : LEVEL_ORDER[i] = label
    THEN (CHOOSE i \in 1..Len(LEVEL_ORDER) : LEVEL_ORDER[i] = label) - 1
    ELSE -1

CompareLevels(a, b) ==
    LET indexA == LevelIndex(a)
        indexB == LevelIndex(b)
    IN  IF indexA = -1 /\ indexB = -1
        THEN (IF a = b THEN 0 ELSE IF StrLess(a, b) THEN -1 ELSE 1)
        ELSE IF indexA = -1 THEN 1
        ELSE IF indexB = -1 THEN -1
        ELSE indexA - indexB

RECURSIVE InsertLevel(_, _)
InsertLevel(sorted, label) ==
    IF sorted = <<>> THEN <<label>>
    ELSE IF CompareLevels(Head(sorted), label) <= 0
    THEN <<Head(sorted)>> \o InsertLevel(Tail(sorted), label)
    ELSE <<label>> \o sorted

\* (variant for C24: every label is sorted alphabetically)
RECURSIVE sortLevelsAlphabetical(_)
sortLevelsAlphabetical(levels) ==
    IF levels = <<>> THEN <<>>
    ELSE LET rest == sortLevelsAlphabetical(SubSeq(levels, 1, Len(levels) - 1))
             label == levels[Len(levels)]
             before == SelectSeq(rest, LAMBDA x : ~StrLess(label, x))
             after == SelectSeq(rest, LAMBDA x : StrLess(label, x))
         IN  before \o <<label>> \o after

RECURSIVE sortLevels(_)
sortLevels(levels) ==
    IF levels = <<>> THEN <<>>
    ELSE InsertLevel(sortLevels(SubSeq(levels, 1, Len(levels) - 1)), levels[Len(levels)])

levelOptions == IF levelLabels = <<>> THEN <<>> ELSE sortLevels(levelLabels)

\* the entries of the level <select>: levelOptions, or the two defaults when empty
LevelChoices == IF levelLabels = <<>> THEN {StrSMK, StrUniversitas} ELSE SeqRange(levelLabels)

RecordsForView(lfr, year, startPeriod, endPeriod) ==
    LET byYear == IF year # NoYear
                  THEN SelectSeq(lfr, LAMBDA record : recordMatchesYear(record, year))
                  ELSE lfr
    IN  IF Truthy(startPeriod) /\ Truthy(endPeriod)
        THEN LET firstKey == IF compareMonthKeys(startPeriod, endPeriod) <= 0
                             THEN startPeriod ELSE endPeriod
                 lastKey == IF compareMonthKeys(startPeriod, endPeriod) <= 0
                            THEN endPeriod ELSE startPeriod
                 start == getMonthBounds(firstKey).start
                 end == getMonthBounds(lastKey).end
             IN  SelectSeq(byYear, LAMBDA record : recordOverlapsRange(record, start, end))
        ELSE byYear

recordsForView ==
    RecordsForView(levelFilteredRecords, selectedYear, selectedStartPeriod, selectedEndPeriod)

\* variant of RangeExtents: an open record contributes its start, not the clock
RangeExtentsWithoutClock(lfr, now) ==
    LET dated == {i \in 1..Len(lfr) : lfr[i].startDate # NoDate}
        endReference(i) == IF lfr[i].endDate # NoDate THEN lfr[i].endDate
                           ELSE lfr[i].startDate
    IN  IF Len(lfr) = 0 \/ dated = {} THEN NoRange
        ELSE [start |-> SetMin({lfr[i].startDate : i \in dated}),
              end |-> SetMax({endReference(i) : i \in dated})]

RangeExtents(lfr, now) ==
    LET dated == {i \in 1..Len(lfr) : lfr[i].startDate # NoDate}
        endReference(i) == IF lfr[i].endDate # NoDate THEN lfr[i].endDate ELSE now
    IN  IF Len(lfr) = 0 \/ dated = {} THEN NoRange
        ELSE [start |-> SetMin({lfr[i].startDate : i \in dated}),
              end |-> SetMax({endReference(i) : i \in dated})]

AvailablePeriodKeys(extents) ==
    IF extents = NoRange THEN <<>>
    ELSE generateMonthKeysInRange(extents.start, extents.end)

AvailableYears(lfr, now) ==
    LET dated == {i \in 1..Len(lfr) : lfr[i].startDate # NoDate}
        endReference(i) == IF lfr[i].endDate # NoDate THEN lfr[i].endDate ELSE now
        yearSet == UNION {getUTCFullYear(lfr[i].startDate)..getUTCFullYear(endReference(i)) :
                          i \in dated}
    IN  SortAscending(yearSet)

years == availableYears

CustomRange(startPeriod, endPeriod) ==
    IF ~Truthy(startPeriod) /\ ~Truthy(endPeriod) THEN NoCustomRange
    ELSE LET startKey == IF startPeriod # null THEN startPeriod ELSE endPeriod
             endKey == IF endPeriod # null THEN endPeriod ELSE startPeriod
         IN  IF ~Truthy(startKey) \/ ~Truthy(endKey) THEN NoCustomRange
             ELSE LET firstKey == IF compareMonthKeys(startKey, endKey) <= 0
                                  THEN startKey ELSE endKey
                      lastKey == IF compareMonthKeys(startKey, endKey) <= 0
                                 THEN endKey ELSE startKey
                  IN  [start |-> getMonthBounds(firstKey).start,
                       end |-> getMonthBounds(lastKey).end,
                       startKey |-> firstKey, endKey |-> lastKey]

SelectedRange(custom, year, extents) ==
    IF custom # NoCustomRange THEN [start |-> custom.start, end |-> custom.end]
    ELSE IF year # NoYear THEN getYearRange(year)
    ELSE extents

selectedRange == SelectedRange(customRange, selectedYear, rangeExtents)

\* (variant for C21: without a range the series shows the current month)
MonthKeysDefaultingToNow(range) ==
    IF range = NoRange THEN <<formatYearMonthUTC(Now)>>
    ELSE generateMonthKeysInRange(range.start, range.end)

MonthKeys(range) ==
    IF range = NoRange THEN <<>>
    ELSE generateMonthKeysInRange(range.start, range.end)

\* variant of RecordsForCounting: the series counts the level-filtered records
RecordsForCountingUnfiltered(year, startPeriod, endPeriod, view, lfr) == lfr

RecordsForCounting(year, startPeriod, endPeriod, view, lfr) ==
    IF year # NoYear \/ (Truthy(startPeriod) /\ Truthy(endPeriod)) THEN view ELSE lfr

recordsForCounting ==
    RecordsForCounting(selectedYear, selectedStartPeriod, selectedEndPeriod,
                       recordsForView, levelFilteredRecords)

ActiveCount(recs, monthKey) ==
    LET bounds == getMonthBounds(monthKey)
    IN  Len(SelectSeq(recs, LAMBDA record : isActiveInMonth(record, bounds.start, bounds.end)))

\* variant of MonthlyData: months in which nobody is active are left out
MonthlyDataSkippingEmpty(keys, counted) ==
    SelectSeq([i \in 1..Len(keys) |->
                  [month |-> keys[i], activeCount |-> ActiveCount(counted, keys[i])]],
              LAMBDA entry : entry.activeCount > 0)

MonthlyData(keys, counted) ==
    IF Len(keys) = 0 THEN <<>>
    ELSE [i \in 1..Len(keys) |->
            [month |-> keys[i], activeCount |-> ActiveCount(counted, keys[i])]]

selectedMonthCount ==
    IF ~Truthy(selectedMonth) THEN 0
    ELSE LET hits == {i \in 1..Len(monthlyData) : monthlyData[i].month = selectedMonth}
         IN  IF hits = {} THEN 0 ELSE monthlyData[SetMin(hits)].activeCount

SampleLimit == 10

\* (variant for C20: the first SampleLimit records are taken before the filter)
SampleRowsSlicedFirst(month, counted) ==
    IF ~Truthy(month) THEN <<>>
    ELSE LET bounds == getMonthBounds(month)
             first == SubSeq(counted, 1,
                             IF Len(counted) < SampleLimit THEN Len(counted) ELSE SampleLimit)
         IN  SelectSeq(first, LAMBDA record : isActiveInMonth(record, bounds.start, bounds.end))

\* sampleRows, before the display formatting of each row
SampleRows(month, counted) ==
    IF ~Truthy(month) THEN <<>>
    ELSE LET bounds == getMonthBounds(month)
             active == SelectSeq(counted,
                                 LAMBDA record : isActiveInMonth(record, bounds.start, bounds.end))
         IN  SubSeq(active, 1, IF Len(active) < SampleLimit THEN Len(active) ELSE SampleLimit)

sampleRows == SampleRows(selectedMonth, recordsForCounting)

\* institutionChartData: one entry per institution key, in first-seen order
InstitutionKey(record) ==
    IF Truthy(record.instansi) /\ trim(record.instansi) # <<>> THEN trim(record.instansi)
    ELSE StrTidakDiketahui

RECURSIVE InstitutionNames(_, _)
InstitutionNames(recs, seen) ==
    IF recs = <<>> THEN <<>>
    ELSE IF InstitutionKey(Head(recs)) \in seen THEN InstitutionNames(Tail(recs), seen)
    ELSE <<InstitutionKey(Head(recs))>>
         \o InstitutionNames(Tail(recs), seen \cup {InstitutionKey(Head(recs))})

\* (variant for C19: an institution is entered once, with the count 1)
InstitutionChartDataUncounted(view) ==
    LET names == InstitutionNames(view, {})
    IN  [i \in 1..Len(names) |-> [name |-> names[i], value |-> 1]]

InstitutionChartData(view) ==
    LET names == InstitutionNames(view, {})
    IN  [i \in 1..Len(names) |->
            [name |-> names[i],
             value |-> Len(SelectSeq(view, LAMBDA record : InstitutionKey(record) = names[i]))]]

institutionChartData == InstitutionChartData(recordsForView)

\* InstitutionDistributionTable: rows.  Array.prototype.sort is stable, so rows
\* with equal values keep the order of data.  A percentage is held as the exact
\* fraction value * 100 / total.
RECURSIVE TotalValue(_)
TotalValue(data) == IF data = <<>> THEN 0 ELSE Head(data).value + TotalValue(Tail(data))

RECURSIVE InsertByValue(_, _)
InsertByValue(sorted, row) ==
    IF sorted = <<>> THEN <<row>>
    ELSE IF Head(sorted).value >= row.value
    THEN <<Head(sorted)>> \o InsertByValue(Tail(sorted), row)
    ELSE <<row>> \o sorted

RECURSIVE SortByValueDescending(_)
SortByValueDescending(rows) ==
    IF rows = <<>> THEN <<>>
    ELSE InsertByValue(SortByValueDescending(SubSeq(rows, 1, Len(rows) - 1)), rows[Len(rows)])

DistributionRows(data) ==
    IF Len(data) = 0 THEN <<>>
    ELSE LET total == TotalValue(data)
         IN  SortByValueDescending(
                 [i \in 1..Len(data) |->
                     [name |-> IF Truthy(data[i].name) THEN data[i].name ELSE StrTidakDiketahui,
                      value |-> data[i].value,
                      percentage |-> IF total > 0
                                     THEN [numerator |-> data[i].value * 100, denominator |-> total]
                                     ELSE [numerator |-> 0, denominator |-> 1]]])

distributionRows == DistributionRows(institutionChartData)

\* ------------------------------------------------------------ rendering
\* One render after a batch of state updates.  A useMemo body runs again when a
\* dependency differs by Object.is; a body that builds an array or an object
\* yields a new reference each time it runs, and an effect is scheduled when a
\* dependency's reference differs.  recordsReplaced: setRecords was called
\* (always with a new array).
FilterOn(year, startPeriod, endPeriod) ==
    year # NoYear \/ (Truthy(startPeriod) /\ Truthy(endPeriod))

Rendered(recordsReplaced, recs, year, level, startPeriod, endPeriod, now) ==
    LET \* levelFilteredRecords: [records, selectedLevel]
        lfrChanged == recordsReplaced \/ level # selectedLevel
        lfrNext == LevelFiltered(recs, level)
        \* rangeExtents: [levelFilteredRecords]; null stays the same reference
        extentsNext == IF lfrChanged THEN RangeExtents(lfrNext, now) ELSE rangeExtents
        extentsChanged == lfrChanged /\ ~(rangeExtents = NoRange /\ extentsNext = NoRange)
        \* customRange: [selectedStartPeriod, selectedEndPeriod]
        periodsChanged == \/ startPeriod # selectedStartPeriod
                          \/ endPeriod # selectedEndPeriod
        customNext == IF periodsChanged THEN CustomRange(startPeriod, endPeriod)
                      ELSE customRange
        customChanged ==
            periodsChanged /\ ~(customRange = NoCustomRange /\ customNext = NoCustomRange)
        \* selectedRange: [customRange, selectedYear, rangeExtents]; it returns
        \* rangeExtents itself when there is neither a custom range nor a year
        yearChanged == year # selectedYear
        fallsThrough == /\ customRange = NoCustomRange /\ customNext = NoCustomRange
                        /\ selectedYear = NoYear /\ year = NoYear
        rangeChanged == IF fallsThrough THEN extentsChanged
                        ELSE customChanged \/ yearChanged \/ extentsChanged
        \* recordsForCounting is levelFilteredRecords itself when no filter applies
        countingChanged ==
            \/ lfrChanged
            \/ /\ \/ FilterOn(selectedYear, selectedStartPeriod, selectedEndPeriod)
                  \/ FilterOn(year, startPeriod, endPeriod)
               /\ (yearChanged \/ periodsChanged)
        \* monthlyData: [monthKeys, recordsForCounting]
        monthlyChanged == rangeChanged \/ countingChanged
        keysNext == IF rangeChanged
                    THEN MonthKeys(SelectedRange(customNext, year, extentsNext))
                    ELSE monthKeys
    IN  [rangeExtents |-> extentsNext,
         availableYears |-> IF lfrChanged THEN AvailableYears(lfrNext, now)
                            ELSE availableYears,
         availablePeriodKeys |-> IF extentsChanged THEN AvailablePeriodKeys(extentsNext)
                                 ELSE availablePeriodKeys,
         customRange |-> customNext,
         monthKeys |-> keysNext,
         monthlyData |->
             IF monthlyChanged
             THEN MonthlyData(keysNext,
                    RecordsForCounting(year, startPeriod, endPeriod,
                        RecordsForView(lfrNext, year, startPeriod, endPeriod), lfrNext))
             ELSE monthlyData,
         pendingEffects |-> (IF extentsChanged THEN {"period"} ELSE {})
                            \cup (IF monthlyChanged THEN {"month"} ELSE {})
                            \cup (IF lfrChanged \/ yearChanged THEN {"year"} ELSE {})]

\* The component function runs on the updated hooks; the commit stores the memo
\* values and schedules the effects whose dependencies changed.
Render(recordsReplaced) ==
    \E r \in {Rendered(recordsReplaced, records', selectedYear', selectedLevel',
                       selectedStartPeriod', selectedEndPeriod', Now)} :
        /\ rangeExtents' = r.rangeExtents
        /\ availableYears' = r.availableYears
        /\ availablePeriodKeys' = r.availablePeriodKeys
        /\ customRange' = r.customRange
        /\ monthKeys' = r.monthKeys
        /\ monthlyData' = r.monthlyData
        /\ pendingEffects' = r.pendingEffects

Settled == pendingEffects = {}

\* -------------------------------------------------------------- effects
\* useEffect on [availablePeriodKeys]
PeriodEffectStart ==
    IF Len(availablePeriodKeys) = 0 THEN null
    ELSE IF Truthy(selectedStartPeriod) /\ Includes(availablePeriodKeys, selectedStartPeriod)
    THEN selectedStartPeriod
    ELSE availablePeriodKeys[1]

PeriodEffectEnd ==
    IF Len(availablePeriodKeys) = 0 THEN null
    ELSE IF Truthy(selectedEndPeriod) /\ Includes(availablePeriodKeys, selectedEndPeriod)
    THEN selectedEndPeriod
    ELSE availablePeriodKeys[Len(availablePeriodKeys)]

\* (variant for C30: the month effect leaves a month outside the series in place)
MonthEffectKeepingStale ==
    IF Len(monthlyData) = 0 THEN null
    ELSE IF Truthy(selectedMonth) THEN selectedMonth
    ELSE monthlyData[1].month

\* useEffect on [monthlyData]
MonthEffect ==
    IF Len(monthlyData) = 0 THEN null
    ELSE IF Truthy(selectedMonth)
            /\ \E i \in 1..Len(monthlyData) : monthlyData[i].month = selectedMonth
    THEN selectedMonth
    ELSE monthlyData[1].month

\* (variant for C11: the year effect leaves a stale year in place)
YearEffectKeepingStale == selectedYear

\* useEffect on [years, selectedYear]
YearEffect ==
    IF selectedYear # NoYear /\ ~Includes(years, selectedYear) THEN NoYear ELSE selectedYear

\* The passive effects of the last commit run in declaration order, each on the
\* values of that render; their state updates are applied in one batch.
FlushEffects ==
    /\ ~Settled
    /\ selectedStartPeriod' = IF "period" \in pendingEffects THEN PeriodEffectStart
                              ELSE selectedStartPeriod
    /\ selectedEndPeriod' = IF "period" \in pendingEffects THEN PeriodEffectEnd
                            ELSE selectedEndPeriod
    /\ selectedMonth' = IF "month" \in pendingEffects THEN MonthEffect ELSE selectedMonth
    /\ selectedYear' = IF "year" \in pendingEffects THEN YearEffect ELSE selectedYear
    /\ UNCHANGED <<records, selectedLevel, error, loading, inflight, latest, clock, lastOp, opCount,
                   repeated, probe>>
    /\ Render(FALSE)

\* ------------------------------------------------------------- handlers
\* The sheets the user can pick: up to MaxRows rows of SheetRows, in sheet order.
Files == {file \in UNION {[1..n -> 1..Len(SheetRows)] : n \in 0..MaxRows} :
            \A i \in 1..(Len(file) - 1) : file[i] < file[i + 1]}

MsgNoValid == "No valid records found in the file"
MsgReadFailed == "Failed to read file"
MsgParseFailed == "Failed to parse Excel file"

\* handleFileUpload up to its await.  FileUploadArea is shown while records is
\* empty; its file input and button are disabled while loading.
UploadStart(file) ==
    /\ Settled
    /\ Len(records) = 0
    /\ ~loading
    /\ loading' = TRUE
    /\ error' = ""
    /\ inflight' = Append(inflight, file)
    /\ latest' = [file |-> file, outcome |-> "pending"]
    /\ UNCHANGED <<records, selectedYear, selectedLevel, selectedStartPeriod,
                   selectedEndPeriod, selectedMonth, memos, pendingEffects, clock, lastOp,
                   opCount, repeated, probe>>

DefaultYear(enrichedRecords, now) ==
    LET sortedYears == AvailableYears(enrichedRecords, now)
    IN  IF Len(sortedYears) > 0 THEN sortedYears[1] ELSE NoYear

\* history: what became of the most recently started upload.  Upload k is that
\* upload when it is the last one in flight and no outcome is recorded yet.
Outcome(k, outcome) ==
    IF k = Len(inflight) /\ latest.outcome = "pending"
    THEN [latest EXCEPT !.outcome = outcome]
    ELSE latest

RemoveAt(s, k) == SubSeq(s, 1, k - 1) \o SubSeq(s, k + 1, Len(s))

\* (variant for C28: a rejected upload also runs setRecords of an empty list)
UploadSettleClearing(k) ==
    /\ Settled
    /\ k \in 1..Len(inflight)
    /\ inflight' = RemoveAt(inflight, k)
    /\ latest' = Outcome(k, IF parseExcelFile(inflight[k]).rejected THEN "rejected" ELSE "resolved")
    /\ LET parsed == parseExcelFile(inflight[k])
           enrichedRecords == [i \in 1..Len(parsed.records) |-> Enrich(parsed.records[i])]
       IN  /\ records' = enrichedRecords
           /\ loading' = FALSE
           /\ repeated' = FALSE
           /\ UNCHANGED <<selectedStartPeriod, selectedEndPeriod, selectedMonth, clock, probe>>
           /\ IF parsed.rejected
              THEN /\ error' = MsgNoValid
                   /\ lastOp' = "uploadRejected"
                   /\ UNCHANGED <<selectedYear, selectedLevel, opCount>>
              ELSE /\ selectedYear' = DefaultYear(enrichedRecords, Now)
                   /\ selectedLevel' = null
                   /\ lastOp' = "upload"
                   /\ opCount' = 0
                   /\ UNCHANGED error
           /\ Render(TRUE)

\* handleFileUpload after its await: the promise of upload k settles
UploadSettle(k) ==
    /\ Settled
    /\ k \in 1..Len(inflight)
    /\ inflight' = RemoveAt(inflight, k)
    /\ latest' = Outcome(k, IF parseExcelFile(inflight[k]).rejected THEN "rejected" ELSE "resolved")
    /\ LET parsed == parseExcelFile(inflight[k])
           enrichedRecords == [i \in 1..Len(parsed.records) |-> Enrich(parsed.records[i])]
       IN  IF parsed.rejected
           THEN /\ error' = MsgNoValid
                /\ loading' = FALSE
                /\ lastOp' = "uploadRejected"
                /\ repeated' = FALSE
                /\ UNCHANGED <<records, selectedYear, selectedLevel, selectedStartPeriod,
                               selectedEndPeriod, selectedMonth, memos, pendingEffects,
                               clock, opCount, probe>>
           ELSE /\ records' = enrichedRecords
                /\ selectedYear' = DefaultYear(enrichedRecords, Now)
                /\ selectedLevel' = null
                /\ loading' = FALSE
                /\ lastOp' = "upload"
                /\ repeated' = FALSE
                /\ opCount' = 0
                /\ UNCHANGED probe
                /\ UNCHANGED <<selectedStartPeriod, selectedEndPeriod, selectedMonth,
                               error, clock>>
                /\ Render(TRUE)

\* reader.onerror, or an exception while parsing: the promise rejects
UploadReadError(k) ==
    /\ Settled
    /\ k \in 1..Len(inflight)
    /\ inflight' = RemoveAt(inflight, k)
    /\ latest' = Outcome(k, "rejected")
    /\ error' \in {MsgReadFailed, MsgParseFailed}
    /\ loading' = FALSE
    /\ lastOp' = "uploadRejected"
    /\ repeated' = FALSE
    /\ UNCHANGED <<records, selectedYear, selectedLevel, selectedStartPeriod,
                   selectedEndPeriod, selectedMonth, memos, pendingEffects, clock, opCount,
                   probe>>

\* FilterPanel and SampleRowsTable are shown while records is not empty
PanelShown == Settled /\ Len(records) > 0

\* bookkeeping of a completed handler call
Handled(op, again) ==
    /\ lastOp' = op
    /\ repeated' = again
    /\ opCount' = IF opCount < MaxOps THEN opCount + 1 ELSE opCount
    /\ UNCHANGED probe


\* variant of handleYearChange: the periods become January and December of the year
handleYearChangeWholeYear(year) ==
    /\ PanelShown
    /\ selectedYear' = year
    /\ IF year = NoYear
       THEN UNCHANGED <<selectedStartPeriod, selectedEndPeriod>>
       ELSE /\ selectedStartPeriod' = createMonthKey(year, 1)
            /\ selectedEndPeriod' = createMonthKey(year, 12)
    /\ Handled("year", lastOp = "year" /\ year = selectedYear)
    /\ UNCHANGED <<records, selectedLevel, selectedMonth, error, loading, inflight, latest, clock>>
    /\ Render(FALSE)

\* year: an entry of the year <select> (years, or "All Years")
handleYearChange(year) ==
    /\ PanelShown
    /\ selectedYear' = year
    /\ IF year = NoYear
       THEN UNCHANGED <<selectedStartPeriod, selectedEndPeriod>>
       ELSE LET yearPrefix == ToStr(year) \o <<ChDash>>
                matchingKeys == SelectSeq(availablePeriodKeys,
                                          LAMBDA key : startsWith(key, yearPrefix))
            IN  IF Len(matchingKeys) > 0
                THEN /\ selectedStartPeriod' = matchingKeys[1]
                     /\ selectedEndPeriod' = matchingKeys[Len(matchingKeys)]
                ELSE /\ selectedStartPeriod' = createMonthKey(year, 1)
                     /\ selectedEndPeriod' = createMonthKey(year, 12)
    /\ Handled("year", lastOp = "year" /\ year = selectedYear)
    /\ UNCHANGED <<records, selectedLevel, selectedMonth, error, loading, inflight, latest, clock>>
    /\ Render(FALSE)

\* variant of handleStartPeriodChange: the selected year is kept
handleStartPeriodChangeKeepingYear(period) ==
    /\ PanelShown
    /\ selectedStartPeriod' = period
    /\ selectedEndPeriod' =
         IF ~Truthy(selectedEndPeriod) \/ compareMonthKeys(period, selectedEndPeriod) > 0
         THEN period ELSE selectedEndPeriod
    /\ Handled("start", lastOp = "start" /\ period = selectedStartPeriod)
    /\ UNCHANGED <<records, selectedYear, selectedLevel, selectedMonth, error, loading,
                   inflight, latest, clock>>
    /\ Render(FALSE)

\* (variant for C29: the end period is left alone when the new start passes it)
handleStartPeriodChangeUnclamped(period) ==
    /\ PanelShown
    /\ selectedYear' = NoYear
    /\ selectedStartPeriod' = period
    /\ selectedEndPeriod' = IF ~Truthy(selectedEndPeriod) THEN period ELSE selectedEndPeriod
    /\ Handled("start", lastOp = "start" /\ period = selectedStartPeriod)
    /\ UNCHANGED <<records, selectedLevel, selectedMonth, error, loading, inflight, latest, clock>>
    /\ Render(FALSE)

\* period: an entry of periodOptions
handleStartPeriodChange(period) ==
    /\ PanelShown
    /\ selectedYear' = NoYear
    /\ selectedStartPeriod' = period
    /\ selectedEndPeriod' =
         IF ~Truthy(selectedEndPeriod) \/ compareMonthKeys(period, selectedEndPeriod) > 0
         THEN period ELSE selectedEndPeriod
    /\ Handled("start", lastOp = "start" /\ period = selectedStartPeriod)
    /\ UNCHANGED <<records, selectedLevel, selectedMonth, error, loading, inflight, latest, clock>>
    /\ Render(FALSE)

handleEndPeriodChange(period) ==
    /\ PanelShown
    /\ selectedYear' = NoYear
    /\ selectedEndPeriod' = period
    /\ selectedStartPeriod' =
         IF ~Truthy(selectedStartPeriod) \/ compareMonthKeys(selectedStartPeriod, period) > 0
         THEN period ELSE selectedStartPeriod
    /\ Handled("end", lastOp = "end" /\ period = selectedEndPeriod)
    /\ UNCHANGED <<records, selectedLevel, selectedMonth, error, loading, inflight, latest, clock>>
    /\ Render(FALSE)

\* (variant for C23: choosing the selected level again clears the selection)
handleLevelChangeToggling(level) ==
    /\ PanelShown
    /\ selectedLevel' = IF level = selectedLevel THEN null ELSE level
    /\ Handled("level", lastOp = "level" /\ level = selectedLevel)
    /\ UNCHANGED <<records, selectedYear, selectedStartPeriod, selectedEndPeriod,
                   selectedMonth, error, loading, inflight, latest, clock>>
    /\ Render(FALSE)

\* level: an entry of the level <select>, or "All Levels"
handleLevelChange(level) ==
    /\ PanelShown
    /\ selectedLevel' = level
    /\ Handled("level", lastOp = "level" /\ level = selectedLevel)
    /\ UNCHANGED <<records, selectedYear, selectedStartPeriod, selectedEndPeriod,
                   selectedMonth, error, loading, inflight, latest, clock>>
    /\ Render(FALSE)

\* month: an entry of monthOptions
handleMonthSelection(month) ==
    /\ PanelShown
    /\ selectedMonth' = month
    /\ Handled("month", lastOp = "month" /\ month = selectedMonth)
    /\ UNCHANGED <<records, selectedYear, selectedLevel, selectedStartPeriod,
                   selectedEndPeriod, error, loading, inflight, latest, clock>>
    /\ Render(FALSE)

handleReset ==
    /\ PanelShown
    /\ records' = <<>>
    /\ selectedYear' = NoYear
    /\ selectedLevel' = null
    /\ selectedStartPeriod' = null
    /\ selectedEndPeriod' = null
    /\ selectedMonth' = null
    /\ error' = ""
    /\ latest' = NoUpload
    /\ Handled("reset", lastOp = "reset")
    /\ UNCHANGED <<loading, inflight, clock>>
    /\ Render(TRUE)

\* the wall clock advances
Tick ==
    /\ clock < Len(ClockInstants)
    /\ clock' = clock + 1
    /\ UNCHANGED <<hooks, memos, pendingEffects, inflight, latest, lastOp, opCount, repeated,
                   probe>>

\* the page after mounting: the mount effects have run on the empty record set
Init ==
    /\ records = <<>>
    /\ selectedYear = NoYear
    /\ selectedLevel = null
    /\ selectedStartPeriod = null
    /\ selectedEndPeriod = null
    /\ selectedMonth = null
    /\ error = ""
    /\ loading = FALSE
    /\ rangeExtents = NoRange
    /\ availableYears = <<>>
    /\ availablePeriodKeys = <<>>
    /\ customRange = NoCustomRange
    /\ monthKeys = <<>>
    /\ monthlyData = <<>>
    /\ pendingEffects = {}
    /\ inflight = <<>>
    /\ clock = 1
    /\ lastOp = "mount"
    /\ opCount = 0
    /\ repeated = FALSE
    /\ latest = NoUpload
    /\ probe = NoProbe

Next ==
    \/ \E file \in Files : UploadStart(file)
    \/ \E k \in 1..Len(inflight) : UploadSettle(k)
    \/ \E k \in 1..Len(inflight) : UploadReadError(k)
    \/ \E year \in SeqRange(years) \cup {NoYear} : handleYearChange(year)
    \/ \E period \in SeqRange(availablePeriodKeys) : handleStartPeriodChange(period)
    \/ \E period \in SeqRange(availablePeriodKeys) : handleEndPeriodChange(period)
    \/ \E level \in LevelChoices \cup {null} : handleLevelChange(level)
    \/ \E month \in SeqRange(monthKeys) : handleMonthSelection(month)
    \/ handleReset
    \/ FlushEffects
    \/ Tick

Spec == Init /\ [][Next]_vars


\* ------------------------------------------------- overlapping uploads
\* In Spec an upload starts on an idle page (the file input and its button are
\* disabled while loading).  FileUploadArea.handleDrop has no such guard: a file
\* dropped while an upload is in flight starts a second handleFileUpload.
\* SpecUploads is the page with uploads started by drops, on single-row sheets.
MaxInflight == 2      \* uploads in flight at once
DropFiles == {<<1>>, <<3>>, <<7>>}      \* two valid sheets and one without a valid row

\* handleDrop -> onFileUpload(file): handleFileUpload up to its await
handleDrop(file) ==
    /\ Settled
    /\ Len(records) = 0
    /\ Len(inflight) < MaxInflight
    /\ loading' = TRUE
    /\ error' = ""
    /\ inflight' = Append(inflight, file)
    /\ latest' = [file |-> file, outcome |-> "pending"]
    /\ UNCHANGED <<records, selectedYear, selectedLevel, selectedStartPeriod,
                   selectedEndPeriod, selectedMonth, memos, pendingEffects, clock, lastOp,
                   opCount, repeated, probe>>

UploadsNext ==
    \/ \E file \in DropFiles : handleDrop(file)
    \/ \E k \in 1..Len(inflight) : UploadSettle(k)
    \/ \E k \in 1..Len(inflight) : UploadReadError(k)
    \/ \E year \in SeqRange(years) \cup {NoYear} : handleYearChange(year)
    \/ \E period \in SeqRange(availablePeriodKeys) : handleStartPeriodChange(period)
    \/ \E period \in SeqRange(availablePeriodKeys) : handleEndPeriodChange(period)
    \/ \E level \in LevelChoices \cup {null} : handleLevelChange(level)
    \/ \E month \in SeqRange(monthKeys) : handleMonthSelection(month)
    \/ handleReset
    \/ FlushEffects
    \/ Tick

SpecUploads == Init /\ [][UploadsNext]_vars

\* ======================================================================
\* The units of the engine applied on their own.  probe holds the arguments
\* of one call and what the call returned (one call per behaviour); the page
\* stays as mounted.
\* ======================================================================
MaxUnitYears == 2

UnitYears ==
    LET first == getUTCFullYear(ClockInstants[1]) - 1
    IN  first..(first + MaxUnitYears)

\* first and last instants of January, February (day 31 rolls over into March,
\* as Date.UTC does) and December of every year
UnitDates ==
    {DateUTC(y, m, 1) : y \in UnitYears, m \in {0, 1, 11}}
        \cup {DateUTC(y, m, 31) + TicksPerDay - 1 : y \in UnitYears, m \in {0, 1, 11}}

UnitKeys == {createMonthKey(y, m) : y \in UnitYears, m \in 1..12}

\* records as the predicates read them: closed, inverted and open-ended
UnitRecords ==
    {[startDate |-> a, endDate |-> b] : a \in UnitDates, b \in UnitDates \cup {NoDate}}

UnitMonthKeys(start, end) ==
    /\ probe = NoProbe
    /\ probe' = [unit |-> "generateMonthKeysInRange", start |-> start, end |-> end,
                 result |-> generateMonthKeysInRange(start, end)]
    /\ UNCHANGED <<hooks, memos, pendingEffects, inflight, latest, clock, lastOp, opCount, repeated>>

UnitMonthBounds(monthKey) ==
    /\ probe = NoProbe
    /\ probe' = [unit |-> "getMonthBounds", monthKey |-> monthKey,
                 result |-> getMonthBounds(monthKey)]
    /\ UNCHANGED <<hooks, memos, pendingEffects, inflight, latest, clock, lastOp, opCount, repeated>>

UnitYearRange(year) ==
    /\ probe = NoProbe
    /\ probe' = [unit |-> "getYearRange", year |-> year, result |-> getYearRange(year)]
    /\ UNCHANGED <<hooks, memos, pendingEffects, inflight, latest, clock, lastOp, opCount, repeated>>

\* the custom-period filter and the monthly counter on the same record and interval
UnitOverlap(record, monthKey) ==
    LET bounds == getMonthBounds(monthKey)
    IN  /\ probe = NoProbe
        /\ probe' = [unit |-> "overlap", record |-> record,
                     start |-> bounds.start, end |-> bounds.end,
                     inRange |-> recordOverlapsRange(record, bounds.start, bounds.end),
                     inMonth |-> isActiveInMonth(record, bounds.start, bounds.end)]
        /\ UNCHANGED <<hooks, memos, pendingEffects, inflight, latest, clock, lastOp, opCount, repeated>>

UnitMatchesYear(record, year) ==
    /\ probe = NoProbe
    /\ probe' = [unit |-> "recordMatchesYear", record |-> record, year |-> year,
                 result |-> recordMatchesYear(record, year)]
    /\ UNCHANGED <<hooks, memos, pendingEffects, inflight, latest, clock, lastOp, opCount, repeated>>

\* sheets longer than the sample: row i is SheetRows row 5 (active in April
\* and May only) when i is a multiple of stride, else row 1 or row 2 in turn,
\* and carries i as its institution so that every record is distinct
MaxSampleExcess == 2

UnitSheet(n, stride) ==
    [i \in 1..n |->
        [SheetRows[IF i % stride = 0 THEN 5 ELSE 1 + (i % 2)] EXCEPT !.Instansi = ToStr(i)]]

UnitSheetRecords(n, stride) ==
    LET all == [i \in 1..n |-> RowRecord(UnitSheet(n, stride)[i])]
        valid == SelectSeq(all, LAMBDA r : ~r.errors)
    IN  [i \in 1..Len(valid) |-> Enrich(valid[i])]

\* the sample rows and the series entry of one month over the same records
UnitSampleRows(n, stride, month) ==
    LET counted == UnitSheetRecords(n, stride)
    IN  /\ probe = NoProbe
        /\ probe' = [unit |-> "sampleRows", records |-> counted, selectedMonth |-> month,
                     rows |-> SampleRows(month, counted),
                     monthlyData |-> MonthlyData(<<month>>, counted)]
        /\ UNCHANGED <<hooks, memos, pendingEffects, inflight, latest, clock, lastOp, opCount, repeated>>

\* what a "start" cell of the sheet may hold: texts of the shape YYYY-MM-DD with
\* month numbers 00..13 and day numbers around the ends of the months, the empty
\* cell, and a text that is no date
UnitCells ==
    {ToStr(y) \o <<ChDash>> \o padStart(ToStr(m), 2, ChZero) \o <<ChDash>>
        \o padStart(ToStr(d), 2, ChZero) :
            y \in UnitYears, m \in 0..13, d \in {0, 1, 28, 29, 30, 31, 32}}
        \cup {<<>>, <<110, 47, 97>>}   \* "", "n/a"

\* parseExcelFile on a sheet of one row with the given start cell, and the
\* page's enrichment of the record it delivers
UnitParseStart(cell) ==
    LET row == [SheetRows[1] EXCEPT !.Mulai = cell, !.Selesai = <<>>]
        parsed == RowRecord(row)
        delivered == ~parsed.errors
    IN  /\ probe = NoProbe
        /\ probe' = [unit |-> "parseExcelFile", cell |-> cell, delivered |-> delivered,
                     tanggalMulai |-> parsed.tanggalMulai,
                     startDate |-> IF delivered THEN Enrich(parsed).startDate ELSE NoDate]
        /\ UNCHANGED <<hooks, memos, pendingEffects, inflight, latest, clock, lastOp, opCount, repeated>>

\* level labels: the two of LEVEL_ORDER and three others
UnitLabels ==
    {StrSMK, StrUniversitas, StrTidakDiketahui, <<68, 51>>, <<83, 77, 65>>}   \* "D3", "SMA"

MaxLabels == 3

UnitSortLevels(levels) ==
    /\ probe = NoProbe
    /\ probe' = [unit |-> "sortLevels", levels |-> levels, result |-> sortLevels(levels)]
    /\ UNCHANGED <<hooks, memos, pendingEffects, inflight, latest, clock, lastOp, opCount, repeated>>

\* host timezones: half a day behind UTC, UTC, half a day ahead (in ticks)
UnitOffsets == {-(TicksPerDay \div 2), 0, TicksPerDay \div 2}

UnitMonthList(start, end, offset) ==
    /\ probe = NoProbe
    /\ probe' = [unit |-> "generateMonthList", startDate |-> formatDate(start),
                 endDate |-> formatDate(end), offset |-> offset,
                 result |-> generateMonthList(formatDate(start), formatDate(end), offset)]
    /\ UNCHANGED <<hooks, memos, pendingEffects, inflight, latest, clock, lastOp, opCount, repeated>>

\* calculateActiveInterns on the records parseExcelFile delivers for a sheet
UnitCalculate(file, offset) ==
    /\ probe = NoProbe
    /\ probe' = [unit |-> "calculateActiveInterns", file |-> file, offset |-> offset,
                 result |-> calculateActiveInterns(parseExcelFile(file).records, Now, offset)]
    /\ UNCHANGED <<hooks, memos, pendingEffects, inflight, latest, clock, lastOp, opCount, repeated>>

UnitNext ==
    \/ \E start \in UnitDates, end \in UnitDates, offset \in UnitOffsets :
            UnitMonthList(start, end, offset)
    \/ \E file \in Files, offset \in UnitOffsets : UnitCalculate(file, offset)
    \/ \E levels \in UNION {[1..n -> UnitLabels] : n \in 0..MaxLabels} : UnitSortLevels(levels)
    \/ \E cell \in UnitCells : UnitParseStart(cell)
    \/ \E n \in 0..(SampleLimit + MaxSampleExcess), stride \in {1, 2, 7}, m \in {1, 3, 5} :
            UnitSampleRows(n, stride, createMonthKey(getUTCFullYear(ClockInstants[1]), m))
    \/ \E start \in UnitDates, end \in UnitDates : UnitMonthKeys(start, end)
    \/ \E monthKey \in UnitKeys : UnitMonthBounds(monthKey)
    \/ \E year \in UnitYears : UnitYearRange(year)
    \/ \E record \in UnitRecords, monthKey \in UnitKeys : UnitOverlap(record, monthKey)
    \/ \E record \in UnitRecords, year \in UnitYears : UnitMatchesYear(record, year)

SpecUnits == Init /\ [][UnitNext]_vars

\* ======================================================================
\* One aggregation pass, with the wall clock free to advance between the
\* steps of the pass.  probe holds the pass's records, its position and what
\* it has derived so far.  (Spec runs the memos of one render at one clock
\* instant; here each clock read is a step of its own.)
\* ======================================================================
\* the last instant of the clock's year and the first instant of the next
PassInstants ==
    LET year == getUTCFullYear(ClockInstants[1])
    IN  <<DateUTC(year + 1, 0, 1) - 1, DateUTC(year + 1, 0, 1)>>

\* records that started in February or November of the clock's year, ended in
\* December or still open
PassRecords ==
    LET year == getUTCFullYear(ClockInstants[1])
    IN  {[startDate |-> a, endDate |-> b] :
            a \in {DateUTC(year, 1, 1), DateUTC(year, 10, 1)},
            b \in {NoDate, DateUTC(year, 11, 1)}}

PassLists == UNION {[1..n -> PassRecords] : n \in 0..MaxRows}

PassNow == PassInstants[probe.clock]

\* a render of the page starts with new level-filtered records
RenderBegin(lfr) ==
    /\ probe = NoProbe
    /\ probe' = [unit |-> "render", records |-> lfr, clock |-> 1, pc |-> "rangeExtents",
                 rangeExtents |-> NoRange, availableYears |-> <<>>]
    /\ UNCHANGED <<hooks, memos, pendingEffects, inflight, latest, clock, lastOp, opCount, repeated>>

\* useMemo rangeExtents: const now = new Date()
RenderRangeExtents ==
    /\ probe.unit = "render"
    /\ probe.pc = "rangeExtents"
    /\ probe' = [probe EXCEPT !.rangeExtents = RangeExtents(probe.records, PassNow),
                              !.pc = "availableYears"]
    /\ UNCHANGED <<hooks, memos, pendingEffects, inflight, latest, clock, lastOp, opCount, repeated>>

\* useMemo availableYears: const now = new Date()
RenderAvailableYears ==
    /\ probe.unit = "render"
    /\ probe.pc = "availableYears"
    /\ probe' = [probe EXCEPT !.availableYears = AvailableYears(probe.records, PassNow),
                              !.pc = "done"]
    /\ UNCHANGED <<hooks, memos, pendingEffects, inflight, latest, clock, lastOp, opCount, repeated>>

\* calculateActiveInterns: records.forEach
CalculateBegin(recs) ==
    /\ probe = NoProbe
    /\ probe' = [unit |-> "calculateActiveInterns", records |-> recs, clock |-> 1,
                 pc |-> IF Len(recs) = 0 THEN "done" ELSE "forEach", ranges |-> <<>>]
    /\ UNCHANGED <<hooks, memos, pendingEffects, inflight, latest, clock, lastOp, opCount, repeated>>

\* the callback on the next record: its [rangeStart, rangeEnd], an open record
\* ending at new Date().  (The record's tanggalMulai / tanggalSelesai strings
\* are held as the dates new Date(...) makes of them.)
CalculateRecord ==
    /\ probe.unit = "calculateActiveInterns"
    /\ probe.pc = "forEach"
    /\ LET record == probe.records[Len(probe.ranges) + 1]
           startDate == record.startDate
           hasEndDate == record.endDate # NoDate
           rawEndDate == IF hasEndDate THEN record.endDate ELSE PassNow
           range == IF rawEndDate >= startDate
                    THEN [rangeStart |-> startDate, rangeEnd |-> rawEndDate]
                    ELSE [rangeStart |-> rawEndDate, rangeEnd |-> startDate]
       IN  probe' = [probe EXCEPT !.ranges = Append(@, range),
                                  !.pc = IF Len(probe.ranges) + 1 = Len(probe.records)
                                         THEN "done" ELSE "forEach"]
    /\ UNCHANGED <<hooks, memos, pendingEffects, inflight, latest, clock, lastOp, opCount, repeated>>

\* the wall clock advances while the pass runs
PassTick ==
    /\ probe.unit \in {"render", "calculateActiveInterns"}
    /\ probe.pc # "done"
    /\ probe.clock < Len(PassInstants)
    /\ probe' = [probe EXCEPT !.clock = @ + 1]
    /\ UNCHANGED <<hooks, memos, pendingEffects, inflight, latest, clock, lastOp, opCount, repeated>>

PassNext ==
    \/ \E lfr \in PassLists : RenderBegin(lfr)
    \/ RenderRangeExtents
    \/ RenderAvailableYears
    \/ \E recs \in PassLists : CalculateBegin(recs)
    \/ CalculateRecord
    \/ PassTick

SpecPass == Init /\ [][PassNext]_vars
\* Memo values equal their bodies on the current dependencies (up to the clock).
MemosFresh ==
    /\ availablePeriodKeys = AvailablePeriodKeys(rangeExtents)
    /\ customRange = CustomRange(selectedStartPeriod, selectedEndPeriod)
    /\ monthKeys = MonthKeys(selectedRange)
    /\ monthlyData = MonthlyData(monthKeys, recordsForCounting)
    /\ \E c \in 1..clock : /\ rangeExtents = RangeExtents(levelFilteredRecords, ClockInstants[c])
                           /\ availableYears = AvailableYears(levelFilteredRecords, ClockInstants[c])

\* ================================================================ claims
\* C1: an open-ended record is evaluated against the reference now: in every
\* settled state each month of the series counts exactly the records with
\* start <= monthEnd and effectiveEnd >= monthStart, where effectiveEnd is the
\* end date, or now for a record without one (so an open record is not counted
\* in a month that begins after now).
EffectiveEndAt(record, now) == IF record.endDate # NoDate THEN record.endDate ELSE now

ActiveAsOf(record, monthKey, now) ==
    LET bounds == getMonthBounds(monthKey)
    IN  /\ record.startDate # NoDate
        /\ record.startDate <= bounds.end
        /\ EffectiveEndAt(record, now) >= bounds.start

C1_OpenRecordsEndAtNow ==
    Settled =>
        LET counted == recordsForCounting
            now == Now
        IN  \A i \in 1..Len(monthlyData) :
                monthlyData[i].activeCount =
                    Cardinality({j \in 1..Len(counted) :
                                    ActiveAsOf(counted[j], monthlyData[i].month, now)})

\* C2: level filtering is by classification: when a label offered in the level
\* options is selected, the level-filtered records are exactly the records whose
\* derived level (determineLevel) equals that label.
C2_LevelFilterByClassification ==
    (Truthy(selectedLevel) /\ selectedLevel \in LevelChoices) =>
        levelFilteredRecords =
            SelectSeq(records, LAMBDA record : determineLevel(record) = selectedLevel)

\* C3: while a year Y is selected, year mode is authoritative: in every settled
\* state with selectedYear = Y, recordsForView is exactly the level-filtered
\* records that overlap [Jan 1 Y, Dec 31 Y]; the displayed periods remove nothing.
\* Stated for sheets whose rows all have start <= end.
WellFormed(record) ==
    record.startDate # NoDate /\ (record.endDate = NoDate \/ record.startDate <= record.endDate)

C3_YearModeAuthoritative ==
    (/\ Settled
     /\ selectedYear # NoYear
     /\ \A i \in 1..Len(records) : WellFormed(records[i])) =>
        LET year == selectedYear
        IN  recordsForView =
                SelectSeq(levelFilteredRecords, LAMBDA record : recordMatchesYear(record, year))

\* C4: exactly one temporal window is in effect: in no settled state are the year
\* overlap filter and the period-range overlap filter both applied to the
\* records, and the month window comes from the mode the record filter comes from.
YearFilterApplied == selectedYear # NoYear
PeriodFilterApplied == Truthy(selectedStartPeriod) /\ Truthy(selectedEndPeriod)
FilterModes == (IF YearFilterApplied THEN {"year"} ELSE {})
               \cup (IF PeriodFilterApplied THEN {"period"} ELSE {})
WindowMode == IF customRange # NoCustomRange THEN "period"
              ELSE IF selectedYear # NoYear THEN "year"
              ELSE "extent"

C4_OneTemporalWindow ==
    Settled => /\ ~(YearFilterApplied /\ PeriodFilterApplied)
               /\ FilterModes \subseteq {WindowMode}

\* the calendar month of a key "YYYY-MM" and of a date, counted in months
KeyOrdinal(monthKey) ==
    ((monthKey[1] - ChZero) * 1000 + (monthKey[2] - ChZero) * 100
        + (monthKey[3] - ChZero) * 10 + (monthKey[4] - ChZero)) * 12
    + (monthKey[6] - ChZero) * 10 + (monthKey[7] - ChZero) - 1

DateOrdinal(date) == getUTCFullYear(date) * 12 + getUTCMonth(date)

\* C5: the monthly series is gap-free: in every settled state it has exactly one
\* entry for every calendar month from the first to the last month of the window
\* in effect (selectedRange), in increasing month order, and a month in which no
\* record is active is present with activeCount = 0.
C5_SeriesGapFree ==
    Settled =>
        LET range == selectedRange
            n == Len(monthlyData)
            counted == recordsForCounting
        IN  /\ n = IF range = NoRange \/ DateOrdinal(range.end) < DateOrdinal(range.start)
                   THEN 0
                   ELSE DateOrdinal(range.end) - DateOrdinal(range.start) + 1
            /\ \A i \in 1..n :
                   /\ Len(monthlyData[i].month) = 7
                   /\ monthlyData[i].month[5] = ChDash
                   /\ KeyOrdinal(monthlyData[i].month) = DateOrdinal(range.start) + i - 1
                   /\ monthlyData[i].activeCount \in 0..Len(counted)

\* a settled window of several months in which no entry counts anybody
C5_Witness ==
    /\ Settled
    /\ \A i \in 1..Len(records) : WellFormed(records[i])
    /\ Len(monthlyData) >= 2
    /\ \A i \in 1..Len(monthlyData) : monthlyData[i].activeCount = 0

\* C6: the series, the sample rows and the institution distribution are computed
\* from the same filtered subset: in every settled state recordsForCounting =
\* recordsForView, every month's activeCount is at most the size of that subset,
\* every sample row is one of its records, and the institution counts add up to
\* its size.
RECURSIVE SumValues(_)
SumValues(entries) ==
    IF entries = <<>> THEN 0 ELSE Head(entries).value + SumValues(Tail(entries))

C6_OneFilteredSubset ==
    Settled =>
        LET view == recordsForView
            rows == sampleRows
        IN  /\ recordsForCounting = view
            /\ \A i \in 1..Len(monthlyData) : monthlyData[i].activeCount <= Len(view)
            /\ \A k \in 1..Len(rows) : rows[k] \in SeqRange(view)
            /\ SumValues(institutionChartData) = Len(view)

\* a settled state in which the temporal filter removes a record and rows are shown
C6_Witness ==
    /\ Settled
    /\ FilterOn(selectedYear, selectedStartPeriod, selectedEndPeriod)
    /\ Len(recordsForView) < Len(levelFilteredRecords)
    /\ Len(sampleRows) > 0

\* C7: after loading [{2024-01-01..2024-03-31, SMK}, {2024-02-15.., Universitas}]
\* with now = 2024-04-01 and letting the effects settle, the series is
\* (2024-01,1) (2024-02,2) (2024-03,2) (2024-04,1); after then selecting level
\* SMK and letting the effects settle it is (2024-01,1) (2024-02,1) (2024-03,1).
ScenarioLoaded ==
    /\ Len(records) = 2
    /\ records[1].startDate = DateUTC(2024, 0, 1)
    /\ records[1].endDate = DateUTC(2024, 2, 31)
    /\ records[1].computedLevel = StrSMK
    /\ records[2].startDate = DateUTC(2024, 1, 15)
    /\ records[2].endDate = NoDate
    /\ records[2].computedLevel = StrUniversitas
    /\ Now = DateUTC(2024, 3, 1)

SeriesEntry(monthDigit, count) ==
    [month |-> <<50, 48, 50, 52, 45, 48, ChZero + monthDigit>>, activeCount |-> count]

C7_Scenario ==
    /\ (ScenarioLoaded /\ Settled /\ lastOp = "upload") =>
           monthlyData = <<SeriesEntry(1, 1), SeriesEntry(2, 2), SeriesEntry(3, 2),
                           SeriesEntry(4, 1)>>
    /\ (ScenarioLoaded /\ Settled /\ lastOp = "level" /\ opCount = 1
           /\ selectedLevel = StrSMK) =>
           monthlyData = <<SeriesEntry(1, 1), SeriesEntry(2, 1), SeriesEntry(3, 1)>>

\* the scenario's second stage: SMK selected right after the load, effects settled
C7_Witness ==
    /\ ScenarioLoaded
    /\ Settled
    /\ lastOp = "level"
    /\ opCount = 1
    /\ selectedLevel = StrSMK
    /\ Len(monthlyData) = 3

\* C8: for a record with an end date the overlap test is inclusive: it is counted
\* in month M iff its start is not after M's last instant and its end not before
\* M's first instant, i.e. iff M lies between the month of its start and the
\* month of its end; a single-day record is counted in the month of that day and
\* in no other.
MonthsAround ==
    {createMonthKey(2023, 11), createMonthKey(2023, 12)}
        \cup {createMonthKey(2024, m) : m \in 1..6}

C8_InclusiveOverlap ==
    /\ \A i \in 1..Len(records) : \A monthKey \in MonthsAround :
           (records[i].startDate # NoDate /\ records[i].endDate # NoDate) =>
               LET bounds == getMonthBounds(monthKey)
               IN  isActiveInMonth(records[i], bounds.start, bounds.end)
                       <=> /\ DateOrdinal(records[i].startDate) <= KeyOrdinal(monthKey)
                           /\ DateOrdinal(records[i].endDate) >= KeyOrdinal(monthKey)
    /\ Settled =>
           LET counted == recordsForCounting
           IN  (/\ Len(counted) = 1
                /\ counted[1].startDate # NoDate
                /\ counted[1].startDate = counted[1].endDate) =>
                   \A k \in 1..Len(monthlyData) :
                       monthlyData[k].activeCount =
                           IF KeyOrdinal(monthlyData[k].month)
                                  = DateOrdinal(counted[1].startDate)
                           THEN 1 ELSE 0

\* a single-day record is the only counted record of a settled series of several
\* months, and a record that ends on the first day of a month is loaded as well
C8_Witness ==
    /\ Settled
    /\ Len(recordsForCounting) = 1
    /\ recordsForCounting[1].startDate # NoDate
    /\ recordsForCounting[1].startDate = recordsForCounting[1].endDate
    /\ Len(monthlyData) >= 2
    /\ \E k \in 1..Len(monthlyData) : monthlyData[k].activeCount = 1
    /\ \E i \in 1..Len(records) :
           /\ records[i].endDate # NoDate
           /\ getUTCDate(records[i].endDate) = 1

\* C9 as stated: right after handleYearChange(Y) with Y a year, selectedYear = Y and
\* the periods are 'Y-01' and 'Y-12', whatever the data extent.
AfterYearChange == lastOp = "year" /\ selectedYear # NoYear

C9_WholeYearPeriods ==
    AfterYearChange =>
        /\ selectedStartPeriod = createMonthKey(selectedYear, 1)
        /\ selectedEndPeriod = createMonthKey(selectedYear, 12)

\* C9 amended: after handleYearChange(Y) with Y a year, selectedYear = Y and the
\* periods are the first and the last available month of year Y, or 'Y-01' and
\* 'Y-12' when no available month lies in year Y.
C9_AvailableMonthsOfYear ==
    AfterYearChange =>
        LET year == selectedYear
            inYear == {i \in 1..Len(availablePeriodKeys) :
                          KeyOrdinal(availablePeriodKeys[i]) \in (year * 12)..(year * 12 + 11)}
        IN  IF inYear = {}
            THEN /\ selectedStartPeriod = createMonthKey(year, 1)
                 /\ selectedEndPeriod = createMonthKey(year, 12)
            ELSE /\ selectedStartPeriod = availablePeriodKeys[SetMin(inYear)]
                 /\ selectedEndPeriod = availablePeriodKeys[SetMax(inYear)]

\* a year was selected and its displayed periods are narrower than the year
C9_Witness ==
    /\ AfterYearChange
    /\ opCount >= 1
    /\ Settled
    /\ selectedStartPeriod # createMonthKey(selectedYear, 1)
    /\ selectedEndPeriod # createMonthKey(selectedYear, 12)

\* C10: after handleStartPeriodChange(p) or handleEndPeriodChange(p) the year is
\* null and the temporal filter applied to the records is the period-range
\* overlap only: recordsForView is exactly the level-filtered records that
\* overlap the months from the start period to the end period.
AfterPeriodChange == lastOp \in {"start", "end"}

C10_PeriodChangeClearsYear ==
    AfterPeriodChange =>
        /\ selectedYear = NoYear
        /\ Truthy(selectedStartPeriod) /\ Truthy(selectedEndPeriod)
        /\ KeyOrdinal(selectedStartPeriod) <= KeyOrdinal(selectedEndPeriod)
        /\ LET rangeStart == getMonthBounds(selectedStartPeriod).start
               rangeEnd == getMonthBounds(selectedEndPeriod).end
           IN  recordsForView =
                   SelectSeq(levelFilteredRecords,
                             LAMBDA record : recordOverlapsRange(record, rangeStart, rangeEnd))

\* a period was chosen while a year's filter would have removed a record that
\* the period range keeps
C10_Witness ==
    /\ AfterPeriodChange
    /\ Settled
    /\ \E year \in SeqRange(years) :
           Len(SelectSeq(levelFilteredRecords, LAMBDA record : recordMatchesYear(record, year)))
               < Len(recordsForView)


\* ------------------------------------------------------------------ C11
\* C11: in every settled state the selected year is null or one of the years
\* derived from the level-filtered records.
C11_StaleYearCleared ==
    Settled => \/ selectedYear = NoYear
               \/ Includes(AvailableYears(levelFilteredRecords, Now), selectedYear)

\* The year chosen by the upload stopped being a year of the level-filtered
\* records when the level changed, and the year effect cleared it.
C11_Witness ==
    /\ Settled
    /\ lastOp = "level"
    /\ opCount = 1
    /\ selectedYear = NoYear
    /\ Len(levelFilteredRecords) > 0
    /\ Len(years) > 0
    /\ \A i \in 1..Len(records) : WellFormed(records[i])

\* ------------------------------------------------------------------ C12
\* C12: in every settled state both period boundaries are members of the list
\* of available months when that list is non-empty, and both are null when it
\* is empty.
C12_PeriodsInsideExtent ==
    Settled =>
        IF Len(availablePeriodKeys) > 0
        THEN /\ Includes(availablePeriodKeys, selectedStartPeriod)
             /\ Includes(availablePeriodKeys, selectedEndPeriod)
        ELSE /\ selectedStartPeriod = null
             /\ selectedEndPeriod = null

\* ------------------------------------------------------------------ C13
\* a well-formed YYYY-MM key
IsMonthKey(key) ==
    /\ Len(key) = 7
    /\ key[5] = ChDash
    /\ \A i \in {1, 2, 3, 4, 6, 7} : IsDigit(key[i])
    /\ (key[6] - ChZero) * 10 + (key[7] - ChZero) \in 1..12

\* C13: for start <= end, generateMonthKeysInRange returns the key of start's
\* month first and the key of end's month last, one key per calendar month in
\* between (monthsBetween + 1 keys), each exactly one month after its
\* predecessor, December -> January included.
C13_EnumerationComplete ==
    (probe.unit = "generateMonthKeysInRange" /\ probe.start <= probe.end) =>
        LET keys == probe.result
            first == DateOrdinal(probe.start)
            last == DateOrdinal(probe.end)
        IN  /\ Len(keys) = last - first + 1
            /\ \A i \in 1..Len(keys) : IsMonthKey(keys[i]) /\ KeyOrdinal(keys[i]) = first + i - 1

\* an enumeration from a day late in one month to a day in a later year: it
\* crosses December -> January
C13_Witness ==
    /\ probe.unit = "generateMonthKeysInRange"
    /\ probe.start < probe.end
    /\ getUTCDate(probe.start) > 1
    /\ getUTCFullYear(probe.start) < getUTCFullYear(probe.end)
    /\ Len(probe.result) > 12

\* ------------------------------------------------------------------ C14
\* C14: generateMonthKeysInRange gives the same sequence for (start, end) and
\* for (end, start), and a non-empty one, whichever argument is the later date.
C14_OrderIndependent ==
    probe.unit = "generateMonthKeysInRange" =>
        /\ probe.result = generateMonthKeysInRange(probe.end, probe.start)
        /\ Len(probe.result) > 0

\* ------------------------------------------------------------------ C15
\* the key of the month with the given ordinal (year * 12 + month index)
KeyOfOrdinal(ordinal) == createMonthKey(ordinal \div 12, (ordinal % 12) + 1)

\* C15: getMonthBounds(M) starts at the first instant of month M and ends one
\* unit before the first instant of the following month, so end(M) + 1 =
\* start(next(M)), December included, and an instant lies in the bucket of M
\* exactly when M is its calendar month; a year's range is the union of its
\* twelve buckets.
C15_MonthBoundsTile ==
    /\ probe.unit = "getMonthBounds" =>
        LET bounds == probe.result
            ordinal == KeyOrdinal(probe.monthKey)
            following == getMonthBounds(KeyOfOrdinal(ordinal + 1))
        IN  /\ getUTCDate(bounds.start) = 1
            /\ bounds.start % TicksPerDay = 0
            /\ bounds.end + 1 = following.start
            /\ \A t \in (bounds.start - 2 * TicksPerDay)..(bounds.end + 2 * TicksPerDay) :
                   (bounds.start <= t /\ t <= bounds.end) <=> DateOrdinal(t) = ordinal
    /\ probe.unit = "getYearRange" =>
        /\ probe.result.start = getMonthBounds(createMonthKey(probe.year, 1)).start
        /\ probe.result.end = getMonthBounds(createMonthKey(probe.year, 12)).end
        /\ probe.result.end + 1 = getYearRange(probe.year + 1).start

\* the bounds of a December: the following month is January of the next year
C15_Witness ==
    /\ probe.unit = "getMonthBounds"
    /\ KeyOrdinal(probe.monthKey) % 12 = 11
    /\ getUTCFullYear(probe.result.end + 1) = getUTCFullYear(probe.result.start) + 1
    /\ getUTCMonth(probe.result.end + 1) = 0

\* ------------------------------------------------------------------ C16
\* C16: on every record (closed, inverted or open-ended) and every interval,
\* recordOverlapsRange and isActiveInMonth return the same value, and
\* recordMatchesYear(r, Y) is recordOverlapsRange(r, Jan 1 Y, end of Dec 31 Y).
C16_OneOverlapPredicate ==
    /\ probe.unit = "overlap" => probe.inRange = probe.inMonth
    /\ probe.unit = "recordMatchesYear" =>
        probe.result = recordOverlapsRange(probe.record,
                                           DateUTC(probe.year, 0, 1),
                                           DateUTC(probe.year, 11, 31) + TicksPerDay - 1)

\* an open-ended record that starts inside the interval: both paths count it
C16_Witness ==
    /\ probe.unit = "overlap"
    /\ probe.record.endDate = NoDate
    /\ probe.start < probe.record.startDate
    /\ probe.record.startDate <= probe.end
    /\ probe.inRange
    /\ probe.inMonth

\* ------------------------------------------------------------------ C17
\* C17: one aggregation pass derives everything from one reference time: at
\* the end of a render the month extent and the year list are the ones of one
\* and the same instant, and at the end of calculateActiveInterns every open
\* record has been closed at one and the same instant, whatever the wall clock
\* did while the pass ran.
C17_SingleNow ==
    /\ (probe.unit = "render" /\ probe.pc = "done") =>
        \E i \in 1..Len(PassInstants) :
            /\ probe.rangeExtents = RangeExtents(probe.records, PassInstants[i])
            /\ probe.availableYears = AvailableYears(probe.records, PassInstants[i])
    /\ (probe.unit = "calculateActiveInterns" /\ probe.pc = "done") =>
        \E i \in 1..Len(PassInstants) :
            \A k \in 1..Len(probe.records) :
                probe.records[k].endDate = NoDate =>
                    probe.ranges[k].rangeEnd = PassInstants[i]

\* ------------------------------------------------------------------ C18
\* C18: the distribution rows are sorted by count, largest first, and rows with
\* equal counts are in ascending order of institution name.
C18_RowsOrdered ==
    Settled =>
        \A i \in 1..Len(distributionRows), j \in 1..Len(distributionRows) :
            i < j =>
                \/ distributionRows[i].value > distributionRows[j].value
                \/ /\ distributionRows[i].value = distributionRows[j].value
                   /\ StrLess(distributionRows[i].name, distributionRows[j].name)

\* ------------------------------------------------------------------ C19
\* the row a record belongs to: its institution without surrounding blanks,
\* the fixed "unknown" label when nothing is left
RowNameOf(record) ==
    LET name == IF record.instansi = null THEN <<>> ELSE TrimEnd(TrimStart(record.instansi))
    IN  IF name = <<>> THEN StrTidakDiketahui ELSE name

RECURSIVE SumNumerators(_)
SumNumerators(rows) ==
    IF rows = <<>> THEN 0 ELSE Head(rows).percentage.numerator + SumNumerators(Tail(rows))

\* C19: every record of the filtered set is counted in exactly one distribution
\* row, the row of its institution (blank surroundings ignored, the "unknown"
\* row when the institution is missing or blank); the counts sum to the size of
\* the set, every percentage is count * 100 over that one total and the
\* percentages sum to 100; an empty set gives no rows.
C19_DistributionTotals ==
    Settled =>
        LET view == recordsForView
            rows == distributionRows
        IN  /\ (Len(view) = 0) = (Len(rows) = 0)
            /\ \A i \in 1..Len(rows), j \in 1..Len(rows) : rows[i].name = rows[j].name => i = j
            /\ \A k \in 1..Len(view) : \E i \in 1..Len(rows) : rows[i].name = RowNameOf(view[k])
            /\ \A i \in 1..Len(rows) :
                /\ rows[i].value = Cardinality({k \in 1..Len(view) : RowNameOf(view[k]) = rows[i].name})
                /\ rows[i].value > 0
                /\ rows[i].percentage.denominator = Len(view)
                /\ rows[i].percentage.numerator = rows[i].value * 100
            /\ SumValues(rows) = Len(view)
            /\ Len(view) > 0 => SumNumerators(rows) = 100 * Len(view)

\* two records of one institution, typed with and without surrounding blanks in
\* the sheet, share the only row
C19_Witness ==
    /\ Settled
    /\ Len(recordsForView) = 2
    /\ Len(distributionRows) = 1
    /\ distributionRows[1].value = 2
    /\ distributionRows[1].name # StrTidakDiketahui
    /\ distributionRows[1].percentage = [numerator |-> 200, denominator |-> 2]

\* ------------------------------------------------------------------ C20
\* the positions of the records active in a month, an open-ended record being
\* active from its start on
ActivePositions(recs, month) ==
    LET bounds == getMonthBounds(month)
    IN  {k \in 1..Len(recs) :
            /\ recs[k].startDate # NoDate
            /\ recs[k].startDate <= bounds.end
            /\ (recs[k].endDate = NoDate \/ recs[k].endDate >= bounds.start)}

\* C20: the sample rows of the selected month are the records active in that
\* month, in record order, cut after the first SampleLimit (10): as many rows
\* as min(10, the month's activeCount in the series), the j-th row being the
\* j-th active record.
C20_SamplePrefix ==
    probe.unit = "sampleRows" =>
        LET active == ActivePositions(probe.records, probe.selectedMonth)
            activeCount == probe.monthlyData[1].activeCount
            expected == IF activeCount < 10 THEN activeCount ELSE 10
        IN  /\ probe.monthlyData[1].month = probe.selectedMonth
            /\ activeCount = Cardinality(active)
            /\ Len(probe.rows) = expected
            /\ \A j \in 1..Len(probe.rows) :
                   \E k \in active :
                       /\ Cardinality({x \in active : x <= k}) = j
                       /\ probe.rows[j] = probe.records[k]

\* more than ten active records, with inactive ones in between: the sample is
\* cut at ten and skips the inactive records
C20_Witness ==
    /\ probe.unit = "sampleRows"
    /\ probe.monthlyData[1].activeCount > 10
    /\ Len(probe.rows) = 10
    /\ probe.rows # SubSeq(probe.records, 1, 10)

WrittenYear(text) ==
    (text[1] - ChZero) * 1000 + (text[2] - ChZero) * 100 + (text[3] - ChZero) * 10
        + (text[4] - ChZero)
WrittenMonth(text) == (text[6] - ChZero) * 10 + (text[7] - ChZero)
WrittenDay(text) == (text[9] - ChZero) * 10 + (text[10] - ChZero)

DaysInMonth(year, month) == DaysBeforeMonth(year, month) - DaysBeforeMonth(year, month - 1)

\* C22: a row whose start cell is missing or is no date is dropped, and the
\* start of every delivered record is a real day of a real month, at UTC
\* midnight, the very day written in the cell.
C22_ValidStart ==
    probe.unit = "parseExcelFile" =>
        /\ ~IsIsoDateShape(probe.cell) => ~probe.delivered
        /\ probe.delivered =>
            /\ WrittenMonth(probe.cell) \in 1..12
            /\ WrittenDay(probe.cell) \in
                   1..DaysInMonth(WrittenYear(probe.cell), WrittenMonth(probe.cell))
            /\ probe.startDate % TicksPerDay = 0
            /\ getUTCFullYear(probe.startDate) = WrittenYear(probe.cell)
            /\ getUTCMonth(probe.startDate) + 1 = WrittenMonth(probe.cell)
            /\ getUTCDate(probe.startDate) = WrittenDay(probe.cell)

\* ------------------------------------------------------------------ C23
\* C23: a level, year, start-period or end-period selection made a second time
\* in a row (the first one settled) changes no state and no derived view, and
\* leaves nothing to settle.
C23_RefilterIdempotent ==
    [][(/\ Settled
        /\ clock' = clock
        /\ inflight' = inflight
        /\ lastOp' \in {"level", "year", "start", "end"}
        /\ repeated') =>
            /\ hooks' = hooks
            /\ memos' = memos
            /\ pendingEffects' = {}]_vars

\* a year that narrows the periods was selected twice in a row
C23_Witness ==
    /\ Settled
    /\ repeated
    /\ lastOp = "year"
    /\ selectedYear # NoYear
    /\ Len(availableYears) > 1
    /\ Truthy(selectedStartPeriod)
    /\ startsWith(selectedStartPeriod, ToStr(selectedYear))

\* ------------------------------------------------------------------ C24
\* how often a label occurs in a list
Occurrences(seq, x) == Cardinality({i \in 1..Len(seq) : seq[i] = x})

\* C24: sortLevels keeps every label, puts the labels of the preference list
\* first, in preference order (SMK before Universitas), and the other labels
\* after them in ascending alphabetical order.
C24_LevelOptionOrder ==
    probe.unit = "sortLevels" =>
        LET result == probe.result
            recognised(label) == label \in {StrSMK, StrUniversitas}
        IN  /\ Len(result) = Len(probe.levels)
            /\ \A i \in 1..Len(result) :
                   Occurrences(result, result[i]) = Occurrences(probe.levels, result[i])
            /\ \A i \in 1..Len(result), j \in 1..Len(result) :
                   i < j =>
                       /\ recognised(result[j]) => recognised(result[i])
                       /\ (result[i] = StrUniversitas) => (result[j] # StrSMK)
                       /\ (~recognised(result[i]) /\ ~recognised(result[j])) =>
                              (result[i] = result[j] \/ StrLess(result[i], result[j]))

\* an unrecognised label that is alphabetically first was given first and comes
\* out after both preferred labels
C24_Witness ==
    /\ probe.unit = "sortLevels"
    /\ Len(probe.levels) = 3
    /\ probe.levels[1] = <<68, 51>>
    /\ probe.result = <<StrSMK, StrUniversitas, <<68, 51>>>>

\* ------------------------------------------------------------------ C25
\* C25: whatever the host's UTC offset, generateMonthList(start, end) for
\* start <= end is the keys of the calendar months from start's to end's, and
\* calculateActiveInterns counts the record 2024-01-01..2024-03-31 in 2024-01,
\* 2024-02 and 2024-03 and in no other month.
C25_UtcMonthKeys ==
    /\ (probe.unit = "generateMonthList"
            /\ NewDate(probe.startDate) <= NewDate(probe.endDate)) =>
        LET first == DateOrdinal(NewDate(probe.startDate))
            last == DateOrdinal(NewDate(probe.endDate))
        IN  probe.result = [i \in 1..(last - first + 1) |-> KeyOfOrdinal(first + i - 1)]
    /\ (probe.unit = "calculateActiveInterns" /\ probe.file = <<1>>) =>
        probe.result = [i \in 1..3 |-> [month |-> createMonthKey(2024, i), activeCount |-> 1]]

\* C26: every offered level selects something.  For the loaded record set, each
\* label of the level options list, once selected, leaves a non-empty
\* level-filtered record set, and no label occurs twice in the list.
C26_OfferedLevelsSelect ==
    /\ \A i \in 1..Len(levelOptions) : LevelFiltered(records, levelOptions[i]) # <<>>
    /\ \A i, j \in 1..Len(levelOptions) : levelOptions[i] = levelOptions[j] => i = j

\* C27: overlapping uploads do not corrupt state.  Whatever the order in which
\* the parses complete: once nothing is in flight and the most recently started
\* upload has resolved, the records shown are the records of that upload; loading
\* is true as long as an upload is in flight; and while no upload has been
\* started since the last Reset the record set stays empty (a late completion
\* does not undo the Reset).
RecordsOf(file) ==
    LET parsed == parseExcelFile(file)
    IN  [i \in 1..Len(parsed.records) |-> Enrich(parsed.records[i])]

C27_OverlappingUploads ==
    /\ (inflight = <<>> /\ latest.outcome = "resolved") => records = RecordsOf(latest.file)
    /\ inflight # <<>> => loading
    /\ latest.outcome = "none" => records = <<>>

\* C28: a failed upload changes nothing but the error.  A step in which an
\* upload leaves the in-flight list as a failure (its promise rejected: no valid
\* row, a parse exception or an unreadable file) keeps the record set and the
\* level, year and period selections as they were, sets a non-empty error message
\* and leaves loading false; a step that starts an upload clears the error.
C28_FailedUploadOnlyError ==
    [][ /\ (Len(inflight') < Len(inflight) /\ lastOp' = "uploadRejected") =>
            /\ records' = records
            /\ selectedLevel' = selectedLevel
            /\ selectedYear' = selectedYear
            /\ selectedStartPeriod' = selectedStartPeriod
            /\ selectedEndPeriod' = selectedEndPeriod
            /\ error' # ""
            /\ ~loading'
        /\ Len(inflight') > Len(inflight) => error' = "" ]_vars

\* an upload has just failed on a page that shows records under a period selection
C28_Witness ==
    /\ lastOp = "uploadRejected"
    /\ records # <<>>
    /\ selectedStartPeriod # null
    /\ error # ""
    /\ ~loading

\* C29: the period range is never inverted.  In every reachable state with both
\* periods selected, selectedStartPeriod <= selectedEndPeriod as month keys; a
\* call of handleStartPeriodChange with a start after the current end moves the
\* end to the new start, and a call of handleEndPeriodChange with an end before
\* the current start moves the start to the new end.
PeriodsOrdered ==
    (selectedStartPeriod # null /\ selectedEndPeriod # null) =>
        compareMonthKeys(selectedStartPeriod, selectedEndPeriod) <= 0

HandlerStep(op) == Settled /\ lastOp' = op /\ clock' = clock /\ inflight' = inflight

C29_PeriodRangeOrdered ==
    /\ []PeriodsOrdered
    /\ [][ /\ (HandlerStep("start") /\ selectedEndPeriod # null
                 /\ compareMonthKeys(selectedStartPeriod', selectedEndPeriod) > 0) =>
                selectedEndPeriod' = selectedStartPeriod'
           /\ (HandlerStep("end") /\ selectedStartPeriod # null
                 /\ compareMonthKeys(selectedStartPeriod, selectedEndPeriod') > 0) =>
                selectedStartPeriod' = selectedEndPeriod' ]_vars

\* a start after the selected end has just been chosen, and the end has followed it
C29_Witness ==
    /\ lastOp = "start"
    /\ opCount = 2
    /\ repeated = FALSE
    /\ selectedStartPeriod # null
    /\ selectedStartPeriod = selectedEndPeriod
    /\ Len(availablePeriodKeys) > 1
    /\ selectedEndPeriod = availablePeriodKeys[Len(availablePeriodKeys)]

\* C30: the sample-month selection always points into the series.  In every
\* settled state selectedMonth is null exactly when the monthly series is empty,
\* and otherwise it is the key of a series entry whose activeCount is the
\* 'Total overlapping rows' figure; and when the effects settle, the month is the
\* one selected before if the series still has it, else the first month.
SeriesHas(month) == \E i \in 1..Len(monthlyData) : monthlyData[i].month = month

MonthPointsIntoSeries ==
    /\ selectedMonth = null <=> monthlyData = <<>>
    /\ selectedMonth # null =>
         \E i \in 1..Len(monthlyData) :
            /\ monthlyData[i].month = selectedMonth
            /\ \A j \in 1..Len(monthlyData) : monthlyData[j].month = selectedMonth => j = i
            /\ selectedMonthCount = monthlyData[i].activeCount

C30_SampleMonthInSeries ==
    /\ [](Settled => MonthPointsIntoSeries)
    /\ [][ (~Settled /\ Settled' /\ monthlyData' # <<>>) =>
             selectedMonth' =
                IF \E i \in 1..Len(monthlyData') : monthlyData'[i].month = selectedMonth
                THEN selectedMonth
                ELSE monthlyData'[1].month ]_vars

\* after a change of the end period, a month other than the first is still selected
C30_Witness ==
    /\ Settled
    /\ lastOp = "end"
    /\ selectedMonth # null
    /\ SeriesHas(selectedMonth)
    /\ selectedMonth # monthlyData[1].month
    /\ selectedMonthCount > 0
=============================================================================
